---- MODULE Spec2Model ----
(***************************************************************************)
(* AlphaForge analytics core: multi-timeframe voting, regime detection,    *)
(* Kelly sizing, the signal generator and the bar-by-bar backtest engine.  *)
(*                                                                         *)
(* Number representation.  The Python code computes in floats; the model   *)
(* computes the same formulas exactly, in integers and integer fractions:  *)
(*   - votes are counted in half votes (the volume boost is 0.5);          *)
(*   - timeframe weights are in tenths (0.20 -> 2, 0.30 -> 3, 0.50 -> 5);  *)
(*   - a ratio (strength, agreement, ATR%, Kelly fraction, drawdown) is a  *)
(*     record [n |-> numerator, d |-> denominator], d > 0, compared by     *)
(*     cross-multiplication;                                               *)
(*   - prices are in pips, money in whole dollars, time in minutes.        *)
(***************************************************************************)
EXTENDS Integers, Sequences, FiniteSets, TLC

VARIABLES
    eng,     \* the OANDABacktestEngine under test (with its signal generator)
    eng2,    \* a second engine replaying the same bars (two-run comparisons)
    gen,     \* an EnhancedSignalGenerator called directly
    res,     \* the result of the last generate_signal call on gen
    gen2,    \* a second generator given the same calls as gen
    res2,    \* the result of the last generate_signal call on gen2
    det,     \* a MarketRegimeDetector called directly
    reg,     \* the outcome of the last detect_regime call on det
    kc,      \* a KellyCriterion: its trade_results window
    frac,    \* the last value calculate_optimal_fraction returned
    mtf,     \* the last direct call of the MultiTimeframeEngine and its result
    prep     \* the M5 data a replayed run fetched and the frames cut for its last bar

vars == <<eng, eng2, gen, res, gen2, res2, det, reg, kc, frac, mtf, prep>>

(***************************************************************************)
(* Ratios                                                                  *)
(***************************************************************************)
Ratio(n, d) == [n |-> n, d |-> d]
RLt(a, b) == a.n * b.d < b.n * a.d
RLe(a, b) == a.n * b.d <= b.n * a.d
REq(a, b) == a.n * b.d = b.n * a.d
Max2(a, b) == IF a >= b THEN a ELSE b
Min2(a, b) == IF a <= b THEN a ELSE b
Abs(x) == IF x < 0 THEN -x ELSE x

(***************************************************************************)
(* MultiTimeframeEngine                                                    *)
(***************************************************************************)
Timeframes == {"M5", "M15", "H1"}

WeightM5 == 2
WeightM15 == 3
WeightH1 == 5
Weight(tf) == CASE tf = "M5" -> WeightM5
                [] tf = "M15" -> WeightM15
                [] tf = "H1" -> WeightH1

MinRows == 50          \* rows an indicator frame needs
TotalIndicators == 6   \* the six sub-votes of a timeframe
AdxFilterMin == 25     \* quality filter 3
StrengthGate == 25     \* generate_signal's own strength gate (percent)

IsRanging(r) == r \in {"ranging_high_volatility", "ranging_low_volatility"}
IsTrendingUp(r) == r \in {"trending_up_high_volatility", "trending_up_low_volatility"}
IsTrendingDown(r) == r \in {"trending_down_high_volatility", "trending_down_low_volatility"}

\* bb_position = (close - bb_lower) / (bb_upper - bb_lower); with a zero band
\* width the float is NaN or infinite and is modelled as comparing false.
BBDefined(f) == f.bb_upper > f.bb_lower
BBBelow(f, pct) == BBDefined(f) /\ (f.close - f.bb_lower) * 100 < pct * (f.bb_upper - f.bb_lower)
BBAbove(f, pct) == BBDefined(f) /\ (f.close - f.bb_lower) * 100 > pct * (f.bb_upper - f.bb_lower)

\* Each sub-vote is <<buy, sell>> in half votes.
EmaVote(f) ==
    IF f.ema5 > f.ema8 /\ f.ema8 > f.ema13 THEN <<2, 0>>
    ELSE IF f.ema5 < f.ema8 /\ f.ema8 < f.ema13 THEN <<0, 2>>
    ELSE <<0, 0>>

RsiVote(f, regime) ==
    IF IsRanging(regime)
    THEN (IF f.rsi7 < 20 THEN <<2, 0>> ELSE IF f.rsi7 > 80 THEN <<0, 2>> ELSE <<0, 0>>)
    ELSE IF IsTrendingUp(regime)
    THEN (IF 30 < f.rsi7 /\ f.rsi7 < 50 THEN <<2, 0>> ELSE <<0, 0>>)
    ELSE IF IsTrendingDown(regime)
    THEN (IF 50 < f.rsi7 /\ f.rsi7 < 70 THEN <<0, 2>> ELSE <<0, 0>>)
    ELSE (IF f.rsi7 < 30 THEN <<2, 0>> ELSE IF f.rsi7 > 70 THEN <<0, 2>> ELSE <<0, 0>>)

\* macd_hist = macd - macd_signal (_calculate_indicators)
MacdVote(f) ==
    LET hist == f.macd - f.macd_signal
    IN  IF f.macd > f.macd_signal /\ hist > 0 THEN <<2, 0>>
        ELSE IF f.macd < f.macd_signal /\ hist < 0 THEN <<0, 2>>
        ELSE <<0, 0>>

BollingerVote(f, regime) ==
    IF IsRanging(regime)
    THEN (IF BBBelow(f, 20) THEN <<2, 0>> ELSE IF BBAbove(f, 80) THEN <<0, 2>> ELSE <<0, 0>>)
    ELSE IF IsTrendingUp(regime)
    THEN (IF f.close > f.bb_upper THEN <<2, 0>>
          ELSE IF BBBelow(f, 30) THEN <<2, 0>> ELSE <<0, 0>>)
    ELSE IF IsTrendingDown(regime)
    THEN (IF f.close < f.bb_lower THEN <<0, 2>>
          ELSE IF BBAbove(f, 70) THEN <<0, 2>> ELSE <<0, 0>>)
    ELSE <<0, 0>>

StochVote(f) ==
    IF f.stoch_k < 20 /\ f.stoch_k > f.stoch_d /\ f.prev_k <= f.prev_d THEN <<2, 0>>
    ELSE IF f.stoch_k > 80 /\ f.stoch_k < f.stoch_d /\ f.prev_k >= f.prev_d THEN <<0, 2>>
    ELSE <<0, 0>>

\* A volume boost of three whole votes instead of half a vote.
VolumeVoteTriple(f, buy, sell) ==
    IF f.volume_ratio > 120
    THEN (IF buy > sell THEN <<6, 0>> ELSE IF sell > buy THEN <<0, 6>> ELSE <<0, 0>>)
    ELSE <<0, 0>>

\* volume_ratio is in hundredths; the boost goes to the side that leads.
VolumeVote(f, buy, sell) ==
    IF f.volume_ratio > 120
    THEN (IF buy > sell THEN <<1, 0>> ELSE IF sell > buy THEN <<0, 1>> ELSE <<0, 0>>)
    ELSE <<0, 0>>

NoLatestData == <<>>

LatestData(f) ==
    [atr |-> f.atr, atr_pct |-> Ratio(f.atr * 100, f.close), adx |-> f.adx,
     rsi7 |-> f.rsi7, volume_ratio |-> f.volume_ratio]

AddVotes(a, b) == <<a[1] + b[1], a[2] + b[2]>>

\* Indicators 1-5 of analyze_timeframe
BaseVotes(f, regime) ==
    AddVotes(EmaVote(f), AddVotes(RsiVote(f, regime), AddVotes(MacdVote(f),
             AddVotes(BollingerVote(f, regime), StochVote(f)))))

\* Indicator 6, the volume boost, on top of the first five
WithVolume(f, base) == AddVotes(base, VolumeVote(f, base[1], base[2]))

\* The result dictionary of analyze_timeframe for the votes <<buy, sell>>
TimeframeResult(f, votes) ==
    [buy_votes |-> votes[1], sell_votes |-> votes[2],
     total_indicators |-> TotalIndicators,
     strength |-> IF votes[1] > votes[2] THEN Ratio(votes[1] * 100, 2 * TotalIndicators)
                  ELSE IF votes[2] > votes[1] THEN Ratio(votes[2] * 100, 2 * TotalIndicators)
                  ELSE Ratio(0, 1),
     latest_data |-> LatestData(f)]

analyze_timeframe(f, regime) ==
    IF f.rows < MinRows
    THEN [buy_votes |-> 0, sell_votes |-> 0, total_indicators |-> 0,
          strength |-> Ratio(0, 1), latest_data |-> NoLatestData]
    ELSE TimeframeResult(f, WithVolume(f, BaseVotes(f, regime)))

\* The timeframes of the input that hold a non-empty frame.
PresentTFs(data) == {tf \in DOMAIN data : data[tf].rows > 0}

\* The weights of the timeframes present rescaled to sum to one.
TotalWeightRescaled(S) == IF S = {} THEN 0 ELSE WeightM5 + WeightM15 + WeightH1

TotalWeight(S) ==
    (IF "M5" \in S THEN Weight("M5") ELSE 0) + (IF "M15" \in S THEN Weight("M15") ELSE 0)
    + (IF "H1" \in S THEN Weight("H1") ELSE 0)

Direction(a) ==
    IF a.buy_votes > a.sell_votes + 1 THEN "BUY"
    ELSE IF a.sell_votes > a.buy_votes + 1 THEN "SELL"
    ELSE "NEUTRAL"

_calculate_voting_agreement(tf_signals) ==
    IF DOMAIN tf_signals = {} THEN Ratio(0, 1)
    ELSE
      LET Count(dir) == Cardinality({tf \in DOMAIN tf_signals : Direction(tf_signals[tf]) = dir})
          most == Max2(Count("BUY"), Max2(Count("SELL"), Count("NEUTRAL")))
      IN  Ratio(most, Cardinality(DOMAIN tf_signals))

FiltersRejected(reason) ==
    [passed |-> FALSE, reasons |-> {reason}, volatility_ok |-> FALSE,
     strength_ok |-> FALSE, adx_ok |-> FALSE, spread_ok |-> FALSE]

\* ATR% between 0.02 and 1.0 percent
VolatilityOk(atr_pct) ==
    /\ 2 * atr_pct.d <= atr_pct.n * 100
    /\ atr_pct.n <= atr_pct.d

_apply_signal_filters(signal_type, strength, data, tf_signals, min_strength) ==
    IF signal_type = "NO_ACTION" THEN FiltersRejected("No signal generated")
    ELSE IF "M5" \notin DOMAIN data \/ data["M5"].rows = 0
    THEN FiltersRejected("No M5 data available")
    ELSE
      LET m5 == IF "M5" \in DOMAIN tf_signals THEN tf_signals["M5"].latest_data
                ELSE NoLatestData
          atr_pct == IF "atr_pct" \in DOMAIN m5 THEN m5.atr_pct ELSE Ratio(0, 1)
          adx == IF "adx" \in DOMAIN m5 THEN m5.adx ELSE 0
          volatility_ok == VolatilityOk(atr_pct)
          strength_ok == RLe(Ratio(min_strength, 1), strength)
          adx_ok == adx >= AdxFilterMin
          passed == volatility_ok /\ strength_ok /\ adx_ok
      IN  [passed |-> passed,
           reasons |-> (IF volatility_ok THEN {}
                        ELSE IF RLt(atr_pct, Ratio(2, 100)) THEN {"Volatility too low"}
                        ELSE {"Volatility too high"})
                       \cup (IF strength_ok THEN {} ELSE {"Signal strength too weak"})
                       \cup (IF adx_ok THEN {} ELSE {"Weak trend"})
                       \cup (IF passed THEN {"All filters passed"} ELSE {}),
           volatility_ok |-> volatility_ok, strength_ok |-> strength_ok,
           adx_ok |-> adx_ok, spread_ok |-> TRUE,
           atr_pct |-> atr_pct, adx |-> adx, strength |-> strength]

\* No vote threshold at all.
MeetsVotesAlways(votes, den, min_votes) == votes >= 0

\* The vote threshold turned around.
MeetsVotesInverted(votes, den, min_votes) == votes <= min_votes * den

\* avg_buy >= self.min_votes_required, with avg = votes / den
MeetsVotes(votes, den, min_votes) == votes >= min_votes * den

\* sum of votes * weight over the timeframes analysed; k names the side
WeightedVotes(tf_signals, k) ==
    (IF "M5" \in DOMAIN tf_signals THEN tf_signals["M5"][k] * Weight("M5") ELSE 0)
    + (IF "M15" \in DOMAIN tf_signals THEN tf_signals["M15"][k] * Weight("M15") ELSE 0)
    + (IF "H1" \in DOMAIN tf_signals THEN tf_signals["H1"][k] * Weight("H1") ELSE 0)

\* The result dictionary of generate_multi_timeframe_signal
SignalResult(regime, tf_signals, nb, ns, den, total_weight, signal_type, strength, filter_results) ==
    [signal |-> IF filter_results.passed THEN signal_type ELSE "NO_ACTION",
     buy_votes |-> Ratio(nb, den), sell_votes |-> Ratio(ns, den),
     strength |-> IF filter_results.passed THEN strength ELSE Ratio(0, 1),
     confidence |-> total_weight,
     timeframe_signals |-> tf_signals,
     agreement |-> _calculate_voting_agreement(tf_signals),
     passed_filters |-> filter_results.passed,
     filter_results |-> filter_results,
     market_regime |-> regime]

\* The decision on the weighted sums nb and ns (avg = sum / den), then the filters
DecideSignal(data, regime, cfg, tf_signals, nb, ns, total_weight) ==
    LET den == IF total_weight > 0 THEN total_weight ELSE 1
        isBuy == MeetsVotes(nb, den, cfg.min_votes) /\ nb > ns
        isSell == MeetsVotes(ns, den, cfg.min_votes) /\ ns > nb
        signal_type == IF isBuy THEN "BUY" ELSE IF isSell THEN "SELL" ELSE "NO_ACTION"
        strength == IF isBuy THEN Ratio(nb * 100, 2 * TotalIndicators * den)
                    ELSE IF isSell THEN Ratio(ns * 100, 2 * TotalIndicators * den)
                    ELSE Ratio(Max2(nb, ns) * 100, 2 * TotalIndicators * den)
    IN  SignalResult(regime, tf_signals, nb, ns, den, total_weight, signal_type, strength,
                     _apply_signal_filters(signal_type, strength, data, tf_signals,
                                           cfg.min_strength))

AggregateSignals(data, regime, cfg, tf_signals) ==
    DecideSignal(data, regime, cfg, tf_signals,
                 WeightedVotes(tf_signals, "buy_votes"),
                 WeightedVotes(tf_signals, "sell_votes"),
                 TotalWeight(DOMAIN tf_signals))

\* cfg = [min_votes |-> half votes, min_strength |-> percent]
generate_multi_timeframe_signal(data, regime, cfg) ==
    IF DOMAIN data = {}
    THEN [signal |-> "NO_ACTION", buy_votes |-> Ratio(0, 1), sell_votes |-> Ratio(0, 1),
          strength |-> Ratio(0, 1), confidence |-> 0, timeframe_signals |-> <<>>,
          agreement |-> Ratio(0, 1), passed_filters |-> FALSE, filter_results |-> <<>>]
    ELSE AggregateSignals(data, regime, cfg,
                          [tf \in PresentTFs(data) |-> analyze_timeframe(data[tf], regime)])

(***************************************************************************)
(* MarketRegimeDetector                                                    *)
(***************************************************************************)
Regimes ==
    {"trending_up_high_volatility", "trending_up_low_volatility",
     "trending_down_high_volatility", "trending_down_low_volatility",
     "ranging_high_volatility", "ranging_low_volatility", "transitional", "unknown"}

TrendingAdx == 25
RangingAdx == 20
MinFeatureRows == 20     \* fewer feature rows: unknown
MinFitRows == 100        \* feature rows the mixture model is fitted on
ConfidencePct == 60      \* posterior below 0.6: transitional
MaxRegimeHistory == 100

\* volatility_thresholds[instrument]['high'], in 1/10000 of the price; an
\* instrument without an entry gets the GBP_USD thresholds.
HighVolGBP == 15
HighVolXAU == 150
HighVolJPY == 80
HighVolThreshold(instrument) ==
    CASE instrument = "XAU_USD" -> HighVolXAU
      [] instrument = "USD_JPY" -> HighVolJPY
      [] OTHER -> HighVolGBP

\* features['volatility'] = atr / close of the latest row
IsHighVol(f, instrument) == f.atr * 10000 > HighVolThreshold(instrument) * f.close

KeepLast(s, n) == IF Len(s) > n THEN SubSeq(s, Len(s) - n + 1, Len(s)) ELSE s

DetectorInit == [is_fitted |-> FALSE, regime_history |-> <<>>, fits |-> 0]

_rule_based_regime_detection(f, instrument) ==
    IF f.feat_adx > TrendingAdx
    THEN (IF f.returns > 0
          THEN (IF IsHighVol(f, instrument) THEN "trending_up_high_volatility"
                ELSE "trending_up_low_volatility")
          ELSE (IF IsHighVol(f, instrument) THEN "trending_down_high_volatility"
                ELSE "trending_down_low_volatility"))
    ELSE IF f.feat_adx < RangingAdx
    THEN (IF IsHighVol(f, instrument) THEN "ranging_high_volatility"
          ELSE "ranging_low_volatility")
    ELSE "transitional"

\* The mapping by cluster alone, whatever the posterior.
_map_regime_IgnoreConfidence(cluster, f, conf, instrument) ==
    IF cluster = 0
    THEN (IF IsHighVol(f, instrument) THEN "trending_up_high_volatility"
          ELSE "trending_up_low_volatility")
    ELSE IF cluster = 1
    THEN (IF IsHighVol(f, instrument) THEN "trending_down_high_volatility"
          ELSE "trending_down_low_volatility")
    ELSE IF cluster = 2
    THEN (IF IsHighVol(f, instrument) THEN "ranging_high_volatility"
          ELSE "ranging_low_volatility")
    ELSE "transitional"

\* cluster: the component gmm.predict returns; conf: max posterior, percent.
_map_regime_to_condition(cluster, f, conf, instrument) ==
    IF conf < ConfidencePct THEN "transitional"
    ELSE IF cluster = 0
    THEN (IF IsHighVol(f, instrument) THEN "trending_up_high_volatility"
          ELSE "trending_up_low_volatility")
    ELSE IF cluster = 1
    THEN (IF IsHighVol(f, instrument) THEN "trending_down_high_volatility"
          ELSE "trending_down_low_volatility")
    ELSE IF cluster = 2
    THEN (IF IsHighVol(f, instrument) THEN "ranging_high_volatility"
          ELSE "ranging_low_volatility")
    ELSE "transitional"

\* Fitting again on a detector that is fitted already.
ShouldFitAgain(d, f) == f.nfeat >= MinFitRows

\* Fitting on any number of feature rows.
ShouldFitAnyRows(d, f) == ~d.is_fitted

\* if not self.is_fitted and len(features) >= 100
ShouldFit(d, f) == ~d.is_fitted /\ f.nfeat >= MinFitRows

\* One detect_regime call.  f is the frame (rows = 0 also stands for df None;
\* ok = FALSE is a frame without the OHLCV columns, on which
\* _calculate_regime_features catches the KeyError and returns None);
\* o is what scikit-learn does on this input: [fit_ok, pred_ok, cluster, conf].
\* The result names the regime returned, the detector afterwards and the
\* branch that produced the regime ("none" | "rule" | "gmm").
detect_regime(d, f, instrument, o) ==
    IF f.rows < MinRows
    THEN [regime |-> "unknown", det |-> d, path |-> "none"]
    ELSE IF ~f.ok \/ f.nfeat < MinFeatureRows
    THEN [regime |-> "unknown", det |-> d, path |-> "none"]
    ELSE
      LET tryFit == ShouldFit(d, f)
          d1 == IF tryFit
                THEN [d EXCEPT !.is_fitted = o.fit_ok, !.fits = @ + 1]
                ELSE d
      IN  IF tryFit /\ ~o.fit_ok
          THEN [regime |-> _rule_based_regime_detection(f, instrument),
                det |-> d1, path |-> "rule"]
          ELSE IF d1.is_fitted
          THEN (IF o.pred_ok
                THEN LET r == _map_regime_to_condition(o.cluster, f, o.conf, instrument)
                     IN  [regime |-> r,
                          det |-> [d1 EXCEPT !.regime_history =
                                     KeepLast(Append(@, [regime |-> r, confidence |-> o.conf,
                                                         timestamp |-> f.time]),
                                              MaxRegimeHistory)],
                          path |-> "gmm"]
                ELSE [regime |-> _rule_based_regime_detection(f, instrument),
                      det |-> d1, path |-> "rule"])
          ELSE [regime |-> _rule_based_regime_detection(f, instrument),
                det |-> d1, path |-> "rule"]

\* Transitional still among the regimes not traded.
should_trade_SkipTransitional(regime) ==
    regime \notin {"ranging_high_volatility", "transitional", "unknown"}

should_trade(regime) == regime \notin {"ranging_high_volatility", "unknown"}

\* get_position_multiplier, in tenths
get_position_multiplier(regime) ==
    CASE regime \in {"trending_up_low_volatility", "trending_down_low_volatility"} -> 12
      [] regime \in {"trending_up_high_volatility", "trending_down_high_volatility"} -> 9
      [] regime = "ranging_low_volatility" -> 8
      [] regime = "ranging_high_volatility" -> 5
      [] regime = "transitional" -> 6
      [] regime = "unknown" -> 5
      [] OTHER -> 10

(***************************************************************************)
(* KellyCriterion                                                          *)
(***************************************************************************)
LookbackTrades == 50
MinKellyTrades == 20
DefaultRisk == Ratio(20, 1000)
MinRisk == Ratio(5, 1000)
MaxRisk == Ratio(30, 1000)
KellyFraction == Ratio(25, 100)

\* Exact arithmetic on ratios, kept in lowest terms with a positive denominator.
RECURSIVE GCD(_, _)
GCD(a, b) == IF b = 0 THEN a ELSE GCD(b, a % b)
RNorm(a) ==
    LET g == GCD(Abs(a.n), Abs(a.d))
        sgn == IF a.d < 0 THEN -1 ELSE 1
    IN  IF a.n = 0 THEN Ratio(0, 1) ELSE Ratio(sgn * (a.n \div g), sgn * (a.d \div g))
RMul(a, b) == RNorm(Ratio(a.n * b.n, a.d * b.d))
RSub(a, b) == RNorm(Ratio(a.n * b.d - b.n * a.d, a.d * b.d))
RDiv(a, b) == RNorm(Ratio(a.n * b.d, a.d * b.n))
RMax(a, b) == IF RLt(a, b) THEN b ELSE a
RMin(a, b) == IF RLt(b, a) THEN b ELSE a

RECURSIVE SumField(_, _)
SumField(s, k) == IF s = <<>> THEN 0 ELSE s[1][k] + SumField(Tail(s), k)

\* A sample that counts a break-even trade as a win.
TradeResult_BreakEvenWins(profit_loss, risk_amount) ==
    [win |-> IF profit_loss >= 0 THEN 1 ELSE 0,
     profit |-> profit_loss,
     win_amount |-> IF profit_loss > 0 THEN Abs(profit_loss) ELSE 0,
     loss_amount |-> IF profit_loss < 0 THEN Abs(profit_loss) ELSE risk_amount,
     risk |-> risk_amount]

TradeResult(profit_loss, risk_amount) ==
    [win |-> IF profit_loss > 0 THEN 1 ELSE 0,
     profit |-> profit_loss,
     win_amount |-> IF profit_loss > 0 THEN Abs(profit_loss) ELSE 0,
     loss_amount |-> IF profit_loss < 0 THEN Abs(profit_loss) ELSE risk_amount,
     risk |-> risk_amount]

\* Appending to a list that is never trimmed.
add_trade_result_Unbounded(w, profit_loss, risk_amount) ==
    Append(w, TradeResult(profit_loss, risk_amount))

\* deque(maxlen = lookback_trades).append
add_trade_result(w, profit_loss, risk_amount) ==
    KeepLast(Append(w, TradeResult(profit_loss, risk_amount)), LookbackTrades)

\* The clamp without its lower bound.
ClampRiskNoFloor(x) == RMin(MaxRisk, x)

\* max(self.min_risk, min(self.max_risk, kelly_safe))
ClampRisk(x) == RMax(MinRisk, RMin(MaxRisk, x))

calculate_optimal_fraction(w) ==
    IF Len(w) < MinKellyTrades THEN DefaultRisk
    ELSE
      LET wins == SumField(w, "win")
          total == Len(w)
          IsWin(t) == t.win = 1
          IsLoss(t) == t.win # 1
          winning == SelectSeq(w, IsWin)
          losing == SelectSeq(w, IsLoss)
      IN  IF wins = 0 THEN MinRisk
          ELSE IF wins = total THEN MaxRisk
          ELSE
            LET p == RNorm(Ratio(wins, total))
                q == RNorm(Ratio(total - wins, total))
                avg_win == RNorm(Ratio(SumField(winning, "win_amount"), Len(winning)))
                avg_loss == RNorm(Ratio(SumField(losing, "loss_amount"), Len(losing)))
            IN  IF avg_loss.n = 0 THEN DefaultRisk
                ELSE
                  LET b == RDiv(avg_win, avg_loss)
                      kelly_full == RDiv(RSub(RMul(p, b), q), b)
                      kelly_safe == RMul(kelly_full, KellyFraction)
                  IN  ClampRisk(kelly_safe)

(***************************************************************************)
(* InstrumentConfig                                                        *)
(***************************************************************************)
ConfiguredInstruments == {"XAU_USD", "GBP_USD", "USD_JPY"}

\* sl_dollars / tp_dollars in pips of the instrument's price
SlGBP == 12
TpGBP == 25
SlXAU == 450
TpXAU == 1500
SlJPY == 17
TpJPY == 52
SlDistance(instrument) ==
    CASE instrument = "GBP_USD" -> SlGBP [] instrument = "XAU_USD" -> SlXAU
      [] instrument = "USD_JPY" -> SlJPY
TpDistance(instrument) ==
    CASE instrument = "GBP_USD" -> TpGBP [] instrument = "XAU_USD" -> TpXAU
      [] instrument = "USD_JPY" -> TpJPY

Raised == [raised |-> TRUE]

calculate_sltp(instrument, entry_price, direction) ==
    IF instrument \notin ConfiguredInstruments THEN Raised
    ELSE IF direction = "BUY"
    THEN [raised |-> FALSE, stop_loss |-> entry_price - SlDistance(instrument),
          take_profit |-> entry_price + TpDistance(instrument),
          sl_distance |-> SlDistance(instrument), tp_distance |-> TpDistance(instrument)]
    ELSE IF direction = "SELL"
    THEN [raised |-> FALSE, stop_loss |-> entry_price + SlDistance(instrument),
          take_profit |-> entry_price - TpDistance(instrument),
          sl_distance |-> SlDistance(instrument), tp_distance |-> TpDistance(instrument)]
    ELSE Raised

(***************************************************************************)
(* EnhancedSignalGenerator                                                 *)
(***************************************************************************)
SupportedInstruments == {"GBP_USD", "XAU_USD", "USD_JPY"}

CooldownMinutes == 240
MaxSignalHistory == 100
GenMinVotes == 5          \* min_votes_required = 2.5, in half votes
GenMinStrength == 35
MinAgreement == Ratio(5, 10)

CooldownReason == "Cooldown active (4h)"

NoResult == [none |-> TRUE]
IsNone(r) == "none" \in DOMAIN r
IsAccepted(r) == ~IsNone(r) /\ r.tradeable
IsRejected(r) == ~IsNone(r) /\ ~r.tradeable

\* datetime.isoformat() and datetime.fromisoformat(): the string keeps the
\* whole timestamp, at the model's resolution of one minute.
isoformat(t) == <<"iso", t>>
fromisoformat(s) == s[2]

NoTimestamp == <<>>
At(t) == <<t>>

GeneratorInit(cfg) ==
    [signal_history |-> [i \in SupportedInstruments |-> <<>>],
     regime_detector |-> DetectorInit,
     kelly_criterion |-> <<>>,
     mtf_engine |-> cfg]

\* _get_session_weight, in tenths.  The SYDNEY session (22 <= h < 6) matches no hour.
_get_session_weight(hour) ==
    IF 8 <= hour /\ hour < 16 THEN 12
    ELSE IF 13 <= hour /\ hour < 21 THEN 12
    ELSE IF 0 <= hour /\ hour < 8 THEN 8
    ELSE IF 22 <= hour /\ hour < 6 THEN 8
    ELSE 8

\* analyze_timeframe raises KeyError on a frame of 50 or more rows that lacks
\* a column; generate_multi_timeframe_signal lets it through.
MtfRaises(data) == \E tf \in PresentTFs(data) : data[tf].rows >= MinRows /\ ~data[tf].ok

\* The cooldown test of generate_signal (Step 1.5)
CooldownActive(g, instrument, current_time) ==
    LET last_signals == g.signal_history[instrument]
    IN  /\ last_signals # <<>>
        /\ LET last_sig == last_signals[Len(last_signals)]
               last_time == fromisoformat(last_sig.timestamp)
           IN  /\ last_sig.tradeable
               /\ current_time - last_time < CooldownMinutes
               /\ current_time - last_time > 0

RejectedCooldown(instrument, current_time) ==
    [instrument |-> instrument, signal |-> "SKIP", reason |-> CooldownReason,
     tradeable |-> FALSE, timestamp |-> isoformat(current_time)]

RejectedRegime(instrument, regime, current_time) ==
    [instrument |-> instrument, signal |-> "SKIP", regime |-> regime,
     reason |-> "Unfavorable market regime", tradeable |-> FALSE,
     timestamp |-> isoformat(current_time)]

RejectedStrength(instrument, regime, mtf_signal, current_price, suggested_direction, proposed_levels, current_time) ==
    [instrument |-> instrument, signal |-> "SKIP", regime |-> regime,
     reason |-> "Signal strength below 25%", mtf_signal |-> mtf_signal,
     tradeable |-> FALSE, last_price |-> current_price,
     suggested_direction |-> suggested_direction,
     proposed_entry |-> current_price,
     proposed_stop_loss |-> IF proposed_levels.raised THEN current_price
                            ELSE proposed_levels.stop_loss,
     proposed_take_profit |-> IF proposed_levels.raised THEN current_price
                              ELSE proposed_levels.take_profit,
     timestamp |-> isoformat(current_time)]

RejectedAgreement(instrument, regime, mtf_signal, current_time) ==
    [instrument |-> instrument, signal |-> "SKIP", regime |-> regime,
     reason |-> "Poor timeframe agreement", mtf_signal |-> mtf_signal,
     tradeable |-> FALSE, timestamp |-> isoformat(current_time)]

\* Step 11: the complete signal
CompleteSignal(instrument, mtf_data, regime, mtf_signal, current_price, atr, kelly_fraction, position_multiplier, sltp_levels, hour, current_time) ==
    [instrument |-> instrument,
     signal |-> mtf_signal.signal,
     strength |-> mtf_signal.strength,
     buy_votes |-> mtf_signal.buy_votes,
     sell_votes |-> mtf_signal.sell_votes,
     confidence |-> mtf_signal.confidence,
     agreement |-> mtf_signal.agreement,
     regime |-> regime,
     regime_tradeable |-> TRUE,
     position_multiplier |-> position_multiplier,
     timeframe_signals |-> mtf_signal.timeframe_signals,
     passed_filters |-> mtf_signal.passed_filters,
     filter_results |-> mtf_signal.filter_results,
     kelly_fraction |-> kelly_fraction,
     recommended_risk |-> RMul(kelly_fraction, Ratio(position_multiplier, 10)),
     entry_price |-> current_price,
     stop_loss |-> sltp_levels.stop_loss,
     take_profit |-> sltp_levels.take_profit,
     atr |-> atr,
     session_weight |-> _get_session_weight(hour),
     trading_hour |-> hour,
     tradeable |-> TRUE,
     timestamp |-> isoformat(current_time),
     candles_analyzed |-> [tf \in DOMAIN mtf_data |-> mtf_data[tf].rows]]

\* Storing the accepted signal in a history that is never trimmed.
StoreSignal_NoTrim(g, instrument, complete_signal) ==
    [result |-> complete_signal,
     gen |-> [g EXCEPT !.signal_history[instrument] = Append(@, complete_signal)]]

\* Storing the accepted signal in the history and returning it
StoreSignal(g, instrument, complete_signal) ==
    [result |-> complete_signal,
     gen |-> [g EXCEPT !.signal_history[instrument] =
                KeepLast(Append(@, complete_signal), MaxSignalHistory)]]

\* Steps 7-11 once the gates are passed: sizing and the levels of the signal
Accept(g, instrument, mtf_data, regime, mtf_signal, current_price, atr, sltp_levels, hour, current_time) ==
    IF sltp_levels.raised THEN [result |-> NoResult, gen |-> g]
    ELSE StoreSignal(g, instrument,
                     CompleteSignal(instrument, mtf_data, regime, mtf_signal, current_price,
                                    atr, calculate_optimal_fraction(g.kelly_criterion),
                                    get_position_multiplier(regime), sltp_levels, hour,
                                    current_time))

\* Steps 4-6 on the multi-timeframe signal: price context and the two gates
GateSignal(g, instrument, mtf_data, regime, mtf_signal, current_time, hour) ==
    LET m5_data == IF "M5" \in DOMAIN mtf_signal.timeframe_signals
                   THEN mtf_signal.timeframe_signals["M5"].latest_data
                   ELSE NoLatestData
        current_price == mtf_data["M5"].close
        atr == IF "atr" \in DOMAIN m5_data THEN Ratio(m5_data.atr, 1)
               ELSE Ratio(current_price, 1000)
        suggested_direction ==
            IF RLt(mtf_signal.sell_votes, mtf_signal.buy_votes) THEN "BUY"
            ELSE IF RLt(mtf_signal.buy_votes, mtf_signal.sell_votes) THEN "SELL"
            ELSE "NEUTRAL"
    IN  IF RLt(mtf_signal.strength, Ratio(StrengthGate, 1))
        THEN [result |-> RejectedStrength(instrument, regime, mtf_signal, current_price,
                             suggested_direction,
                             calculate_sltp(instrument, current_price,
                                            IF suggested_direction \in {"BUY", "SELL"}
                                            THEN suggested_direction ELSE "BUY"),
                             current_time),
              gen |-> g]
        ELSE IF RLt(mtf_signal.agreement, MinAgreement)
        THEN [result |-> RejectedAgreement(instrument, regime, mtf_signal, current_time),
              gen |-> g]
        ELSE Accept(g, instrument, mtf_data, regime, mtf_signal, current_price, atr,
                    calculate_sltp(instrument, current_price, mtf_signal.signal), hour,
                    current_time)

\* Steps 2-3 on the outcome dr of detect_regime, then the voting
GateRegime(g, instrument, mtf_data, dr, current_time, hour) ==
    IF ~should_trade(dr.regime)
    THEN [result |-> RejectedRegime(instrument, dr.regime, current_time),
          gen |-> [g EXCEPT !.regime_detector = dr.det]]
    ELSE IF MtfRaises(mtf_data)
    THEN [result |-> NoResult, gen |-> [g EXCEPT !.regime_detector = dr.det]]
    ELSE GateSignal([g EXCEPT !.regime_detector = dr.det], instrument, mtf_data, dr.regime,
                    generate_multi_timeframe_signal(mtf_data, dr.regime, g.mtf_engine),
                    current_time, hour)

\* The regime classified before the cooldown test instead of after it.
CheckData_DetectFirst(g, instrument, mtf_data, current_time, hour, o) ==
    IF DOMAIN mtf_data = {} \/ "M5" \notin DOMAIN mtf_data
    THEN [result |-> NoResult, gen |-> g]
    ELSE IF CooldownActive(g, instrument, current_time)
    THEN [result |-> RejectedCooldown(instrument, current_time),
          gen |-> [g EXCEPT !.regime_detector =
                     detect_regime(g.regime_detector, mtf_data["M5"], instrument, o).det]]
    ELSE GateRegime(g, instrument, mtf_data,
                    detect_regime(g.regime_detector, mtf_data["M5"], instrument, o),
                    current_time, hour)

\* Steps 1-1.5 on the data in hand
CheckData(g, instrument, mtf_data, current_time, hour, o) ==
    IF DOMAIN mtf_data = {} \/ "M5" \notin DOMAIN mtf_data
    THEN [result |-> NoResult, gen |-> g]
    ELSE IF CooldownActive(g, instrument, current_time)
    THEN [result |-> RejectedCooldown(instrument, current_time), gen |-> g]
    ELSE GateRegime(g, instrument, mtf_data,
                    detect_regime(g.regime_detector, mtf_data["M5"], instrument, o),
                    current_time, hour)

\* One generate_signal call: [result, gen].  timestamp is NoTimestamp or At(t);
\* provided is the injected data (the empty function when none is given);
\* fetched is what fetch_multi_timeframe delivers; now is datetime.now() and
\* hour is datetime.utcnow().hour; o is scikit-learn's behaviour on the M5 frame.
generate_signal(g, instrument, timestamp, provided, fetched, now, hour, o) ==
    IF instrument \notin SupportedInstruments THEN [result |-> NoResult, gen |-> g]
    ELSE CheckData(g, instrument, IF DOMAIN provided # {} THEN provided ELSE fetched,
                   IF timestamp = NoTimestamp THEN now ELSE timestamp[1], hour, o)

(***************************************************************************)
(* OANDABacktestEngine                                                     *)
(***************************************************************************)
BtMinStrength == 40        \* min_strength default of the engine
RiskPerTradePct == 2       \* risk_per_trade = 0.02
InitialBalance == 10000    \* initial_balance

NoPosition == [none |-> TRUE]
HasPosition(e) == "none" \notin DOMAIN e.open_position

\* __init__; cfg = [min_votes, min_strength] overrides the generator's engine settings.
EngineInit(instrument, cfg) ==
    [instrument |-> instrument,
     initial_balance |-> InitialBalance,
     balance |-> InitialBalance,
     equity |-> InitialBalance,
     trades |-> <<>>,
     open_position |-> NoPosition,
     total_trades |-> 0, winning_trades |-> 0, losing_trades |-> 0,
     total_profit |-> 0, total_loss |-> 0,
     max_drawdown |-> Ratio(0, 1),
     peak_balance |-> InitialBalance,
     signal_generator |-> GeneratorInit(cfg),
     \* the position of run_backtest
     pc |-> "loop",          \* "loop" | "done"
     bars |-> 0,             \* bars of the loop executed so far
     last_close |-> 0,       \* df['close'].iloc[-1] and df.index[-1] so far
     last_time |-> 0,
     results |-> NoResult,
     \* history variables
     opened |-> 0,           \* executions of _open_trade that set open_position
     skipped |-> 0,          \* bars on which generate_signal gave no result
     first_skip |-> 0,       \* the first such bar (0: none so far)
     last_bar |-> "none",    \* what the last bar did
     last_regime |-> "none"] \* the regime in the last bar's signal result

\* _close_trade crediting only the winning trades to the balance.
_close_trade_WinsOnly(e, exit_price, exit_time, reason) ==
    IF ~HasPosition(e) THEN e
    ELSE
      LET pos == e.open_position
          pnl == IF pos.direction = "BUY"
                 THEN (exit_price - pos.entry_price) * pos.position_size
                 ELSE (pos.entry_price - exit_price) * pos.position_size
          balance == IF pnl > 0 THEN e.balance + pnl ELSE e.balance
      IN  [e EXCEPT !.balance = balance,
                    !.equity = balance,
                    !.total_trades = @ + 1,
                    !.trades = Append(@, [pnl |-> pnl, balance |-> balance,
                                          reason |-> reason, exit_time |-> exit_time]),
                    !.open_position = NoPosition]

\* A close whose peak follows the balance down.
_close_trade_PeakFollows(e, exit_price, exit_time, reason) ==
    IF ~HasPosition(e) THEN e
    ELSE
      LET pos == e.open_position
          pnl == IF pos.direction = "BUY"
                 THEN (exit_price - pos.entry_price) * pos.position_size
                 ELSE (pos.entry_price - exit_price) * pos.position_size
          balance == e.balance + pnl
          peak == balance
          drawdown == Ratio(peak - balance, peak)
          trade_record ==
              [entry_time |-> pos.entry_time, exit_time |-> exit_time,
               direction |-> pos.direction, entry_price |-> pos.entry_price,
               exit_price |-> exit_price, position_size |-> pos.position_size,
               pnl |-> pnl, pnl_pct |-> Ratio(pnl * 100, e.initial_balance),
               balance |-> balance, reason |-> reason,
               signal_strength |-> pos.signal_strength,
               buy_votes |-> pos.buy_votes, sell_votes |-> pos.sell_votes]
      IN  [e EXCEPT !.balance = balance,
                    !.equity = balance,
                    !.peak_balance = peak,
                    !.max_drawdown = IF RLt(@, drawdown) THEN drawdown ELSE @,
                    !.total_trades = @ + 1,
                    !.winning_trades = IF pnl > 0 THEN @ + 1 ELSE @,
                    !.total_profit = IF pnl > 0 THEN @ + pnl ELSE @,
                    !.losing_trades = IF pnl > 0 THEN @ ELSE @ + 1,
                    !.total_loss = IF pnl > 0 THEN @ ELSE @ + Abs(pnl),
                    !.trades = Append(@, trade_record),
                    !.open_position = NoPosition]

\* A close that counts a break-even trade as a win.
_close_trade_ZeroIsWin(e, exit_price, exit_time, reason) ==
    IF ~HasPosition(e) THEN e
    ELSE
      LET pos == e.open_position
          pnl == IF pos.direction = "BUY"
                 THEN (exit_price - pos.entry_price) * pos.position_size
                 ELSE (pos.entry_price - exit_price) * pos.position_size
          balance == e.balance + pnl
          peak == IF balance > e.peak_balance THEN balance ELSE e.peak_balance
          drawdown == Ratio(peak - balance, peak)
          trade_record ==
              [entry_time |-> pos.entry_time, exit_time |-> exit_time,
               direction |-> pos.direction, entry_price |-> pos.entry_price,
               exit_price |-> exit_price, position_size |-> pos.position_size,
               pnl |-> pnl, pnl_pct |-> Ratio(pnl * 100, e.initial_balance),
               balance |-> balance, reason |-> reason,
               signal_strength |-> pos.signal_strength,
               buy_votes |-> pos.buy_votes, sell_votes |-> pos.sell_votes]
      IN  [e EXCEPT !.balance = balance,
                    !.equity = balance,
                    !.peak_balance = peak,
                    !.max_drawdown = IF RLt(@, drawdown) THEN drawdown ELSE @,
                    !.total_trades = @ + 1,
                    !.winning_trades = IF pnl >= 0 THEN @ + 1 ELSE @,
                    !.total_profit = IF pnl >= 0 THEN @ + pnl ELSE @,
                    !.losing_trades = IF pnl >= 0 THEN @ ELSE @ + 1,
                    !.total_loss = IF pnl >= 0 THEN @ ELSE @ + Abs(pnl),
                    !.trades = Append(@, trade_record),
                    !.open_position = NoPosition]

_close_trade(e, exit_price, exit_time, reason) ==
    IF ~HasPosition(e) THEN e
    ELSE
      LET pos == e.open_position
          pnl == IF pos.direction = "BUY"
                 THEN (exit_price - pos.entry_price) * pos.position_size
                 ELSE (pos.entry_price - exit_price) * pos.position_size
          balance == e.balance + pnl
          peak == IF balance > e.peak_balance THEN balance ELSE e.peak_balance
          drawdown == Ratio(peak - balance, peak)
          trade_record ==
              [entry_time |-> pos.entry_time, exit_time |-> exit_time,
               direction |-> pos.direction, entry_price |-> pos.entry_price,
               exit_price |-> exit_price, position_size |-> pos.position_size,
               pnl |-> pnl, pnl_pct |-> Ratio(pnl * 100, e.initial_balance),
               balance |-> balance, reason |-> reason,
               signal_strength |-> pos.signal_strength,
               buy_votes |-> pos.buy_votes, sell_votes |-> pos.sell_votes]
      IN  [e EXCEPT !.balance = balance,
                    !.equity = balance,
                    !.peak_balance = peak,
                    !.max_drawdown = IF RLt(@, drawdown) THEN drawdown ELSE @,
                    !.total_trades = @ + 1,
                    !.winning_trades = IF pnl > 0 THEN @ + 1 ELSE @,
                    !.total_profit = IF pnl > 0 THEN @ + pnl ELSE @,
                    !.losing_trades = IF pnl > 0 THEN @ ELSE @ + 1,
                    !.total_loss = IF pnl > 0 THEN @ ELSE @ + Abs(pnl),
                    !.trades = Append(@, trade_record),
                    !.open_position = NoPosition]

_update_position(e, current_price, current_time) ==
    IF ~HasPosition(e) THEN e
    ELSE
      LET pos == e.open_position
      IN  IF pos.direction = "BUY"
          THEN (IF current_price <= pos.stop_loss
                THEN _close_trade(e, pos.stop_loss, current_time, "Stop Loss")
                ELSE IF current_price >= pos.take_profit
                THEN _close_trade(e, pos.take_profit, current_time, "Take Profit")
                ELSE e)
          ELSE (IF current_price >= pos.stop_loss
                THEN _close_trade(e, pos.stop_loss, current_time, "Stop Loss")
                ELSE IF current_price <= pos.take_profit
                THEN _close_trade(e, pos.take_profit, current_time, "Take Profit")
                ELSE e)

\* signal_data is the trade_data dictionary run_backtest builds.  The ATR is
\* drawn even, so that atr * 1.5 is a whole number of pips; the quotients
\* balance * 0.02 and risk_amount / stop_distance are rounded down.
_open_trade(e, direction, entry_price, entry_time, signal_data) ==
    LET tfs == signal_data.timeframe_signals
        ld == IF "M5" \in DOMAIN tfs THEN tfs["M5"].latest_data ELSE NoLatestData
        atr == IF "atr" \in DOMAIN ld THEN ld.atr ELSE entry_price \div 1000
        stop_loss == IF direction = "BUY" THEN entry_price - (atr * 3) \div 2
                     ELSE entry_price + (atr * 3) \div 2
        take_profit == IF direction = "BUY" THEN entry_price + atr * 3
                       ELSE entry_price - atr * 3
        risk_amount == (e.balance * RiskPerTradePct) \div 100
        stop_distance == Abs(entry_price - stop_loss)
        position_size == IF stop_distance > 0 THEN risk_amount \div stop_distance ELSE 0
    IN  IF position_size <= 0 THEN e
        ELSE [e EXCEPT !.open_position =
                         [direction |-> direction, entry_price |-> entry_price,
                          entry_time |-> entry_time, stop_loss |-> stop_loss,
                          take_profit |-> take_profit, position_size |-> position_size,
                          risk_amount |-> risk_amount,
                          signal_strength |-> signal_data.strength,
                          buy_votes |-> signal_data.buy_votes,
                          sell_votes |-> signal_data.sell_votes],
                      !.opened = @ + 1]

\* What the loop body does with the outcome gs of generate_signal
ApplySignal(e, bar, gs) ==
    LET signal_result == gs.result
        e1 == [e EXCEPT !.signal_generator = gs.gen,
                        !.last_regime = IF "regime" \in DOMAIN gs.result
                                        THEN gs.result.regime ELSE "none"]
    IN  IF IsNone(signal_result)
        THEN [e1 EXCEPT !.skipped = @ + 1, !.last_bar = "skipped",
                        !.first_skip = IF @ = 0 THEN e.bars ELSE @]
        ELSE IF signal_result.signal \in {"BUY", "SELL"}
        THEN (IF ~signal_result.tradeable
              THEN [e1 EXCEPT !.last_bar = "filtered"]
              ELSE LET mtf_sig == IF "mtf_signal" \in DOMAIN signal_result
                                  THEN signal_result.mtf_signal ELSE <<>>
                       trade_data ==
                         [signal |-> signal_result.signal,
                          strength |-> IF "strength" \in DOMAIN mtf_sig
                                       THEN mtf_sig.strength ELSE Ratio(0, 1),
                          buy_votes |-> IF "buy_votes" \in DOMAIN mtf_sig
                                        THEN mtf_sig.buy_votes ELSE Ratio(0, 1),
                          sell_votes |-> IF "sell_votes" \in DOMAIN mtf_sig
                                         THEN mtf_sig.sell_votes ELSE Ratio(0, 1),
                          passed_filters |-> TRUE,
                          timeframe_signals |-> signal_result.timeframe_signals]
                   IN  [_open_trade(e1, signal_result.signal, bar.close, bar.time, trade_data)
                          EXCEPT !.last_bar = "accepted"])
        ELSE IF signal_result.reason = CooldownReason
        THEN [e1 EXCEPT !.last_bar = "cooldown"]
        ELSE [e1 EXCEPT !.last_bar = "rejected"]

\* The part of the loop body after position management: the signal check.
check_signal(e, bar, hour, o) ==
    ApplySignal(e, bar,
                generate_signal(e.signal_generator, e.instrument, At(bar.time),
                                [tf \in Timeframes |->
                                   CASE tf = "M5" -> bar.m5 [] tf = "M15" -> bar.m15
                                     [] tf = "H1" -> bar.h1],
                                <<>>, bar.time, hour, o))

\* run_bar without the `continue` that skips the signal check while a
\* position stays open.
run_bar_NoContinue(e, bar, hour, o) ==
    LET e0 == [e EXCEPT !.bars = @ + 1, !.last_close = bar.close, !.last_time = bar.time]
    IN  check_signal(_update_position(e0, bar.close, bar.time), bar, hour, o)

\* The loop body after _update_position: `continue` while the position is open
AfterUpdate(e, bar, hour, o) ==
    IF HasPosition(e) THEN [e EXCEPT !.last_bar = "held"]
    ELSE check_signal(e, bar, hour, o)

\* One iteration of the for loop of run_backtest (focus_date not set).
run_bar(e, bar, hour, o) ==
    LET e0 == [e EXCEPT !.bars = @ + 1, !.last_close = bar.close, !.last_time = bar.time]
    IN  IF HasPosition(e0)
        THEN AfterUpdate(_update_position(e0, bar.close, bar.time), bar, hour, o)
        ELSE check_signal(e0, bar, hour, o)

_calculate_results(e) ==
    IF e.trades = <<>> THEN NoResult
    ELSE [initial_balance |-> e.initial_balance,
          final_balance |-> e.balance,
          net_profit |-> e.balance - e.initial_balance,
          return_pct |-> Ratio((e.balance - e.initial_balance) * 100, e.initial_balance),
          total_trades |-> e.total_trades,
          winning_trades |-> e.winning_trades,
          losing_trades |-> e.losing_trades,
          win_rate |-> IF e.total_trades > 0
                       THEN Ratio(e.winning_trades * 100, e.total_trades) ELSE Ratio(0, 1),
          avg_win |-> IF e.winning_trades > 0
                      THEN Ratio(e.total_profit, e.winning_trades) ELSE Ratio(0, 1),
          avg_loss |-> IF e.losing_trades > 0
                       THEN Ratio(e.total_loss, e.losing_trades) ELSE Ratio(0, 1),
          max_drawdown |-> Ratio(e.max_drawdown.n * 100, e.max_drawdown.d),
          trades |-> e.trades]

\* The end of run_backtest reporting without the closing of the open position.
finish_backtest_LeaveOpen(e) ==
    [e EXCEPT !.pc = "done", !.results = _calculate_results(e), !.last_bar = "end"]

\* The end of run_backtest: close what is open at the last close, then report.
finish_backtest(e) ==
    LET e1 == IF HasPosition(e)
              THEN _close_trade(e, e.last_close, e.last_time, "End of backtest")
              ELSE e
    IN  [e1 EXCEPT !.pc = "done", !.results = _calculate_results(e1), !.last_bar = "end"]

(***************************************************************************)
(* Inputs: candle frames, reduced to what the code reads from them (the    *)
(* row count and the indicator values of the last two rows).               *)
(***************************************************************************)
Indicators(kind) ==
    CASE kind = "flat" ->
           [ema5 |-> 2, ema8 |-> 2, ema13 |-> 2, rsi7 |-> 50, macd |-> 0, macd_signal |-> 0,
            bb_up |-> 10, bb_lo |-> 10, stoch_k |-> 50, stoch_d |-> 50, prev_k |-> 50,
            prev_d |-> 50, volume_ratio |-> 100]
      [] kind = "weak_buy" ->
           [ema5 |-> 3, ema8 |-> 2, ema13 |-> 1, rsi7 |-> 50, macd |-> 1, macd_signal |-> 0,
            bb_up |-> 10, bb_lo |-> 10, stoch_k |-> 50, stoch_d |-> 50, prev_k |-> 50,
            prev_d |-> 50, volume_ratio |-> 150]
      [] kind = "mid_buy" ->
           [ema5 |-> 3, ema8 |-> 2, ema13 |-> 1, rsi7 |-> 50, macd |-> 1, macd_signal |-> 0,
            bb_up |-> 10, bb_lo |-> 10, stoch_k |-> 15, stoch_d |-> 10, prev_k |-> 8,
            prev_d |-> 9, volume_ratio |-> 100]
      [] kind = "strong_buy" ->
           [ema5 |-> 3, ema8 |-> 2, ema13 |-> 1, rsi7 |-> 25, macd |-> 1, macd_signal |-> 0,
            bb_up |-> 18, bb_lo |-> 2, stoch_k |-> 15, stoch_d |-> 10, prev_k |-> 8,
            prev_d |-> 9, volume_ratio |-> 150]
      [] kind = "strong_sell" ->
           [ema5 |-> 1, ema8 |-> 2, ema13 |-> 3, rsi7 |-> 75, macd |-> -1, macd_signal |-> 0,
            bb_up |-> 2, bb_lo |-> 18, stoch_k |-> 85, stoch_d |-> 90, prev_k |-> 92,
            prev_d |-> 91, volume_ratio |-> 150]
      [] kind = "mixed" ->
           [ema5 |-> 3, ema8 |-> 2, ema13 |-> 1, rsi7 |-> 75, macd |-> 1, macd_signal |-> 0,
            bb_up |-> 10, bb_lo |-> 10, stoch_k |-> 85, stoch_d |-> 90, prev_k |-> 92,
            prev_d |-> 91, volume_ratio |-> 150]
      [] kind = "balanced" ->
           [ema5 |-> 3, ema8 |-> 2, ema13 |-> 1, rsi7 |-> 50, macd |-> -1, macd_signal |-> 0,
            bb_up |-> 18, bb_lo |-> 2, stoch_k |-> 85, stoch_d |-> 90, prev_k |-> 92,
            prev_d |-> 91, volume_ratio |-> 150]

\* A frame of `rows` candles whose last candle closes at `close` at `time`.
\* nfeat, feat_adx and returns are what _calculate_regime_features derives:
\* the number of feature rows left by dropna, and the adx and returns of the
\* last feature row.
Frame(kind, rows, nfeat, feat_adx, returns, close, atr, adx, time, ok) ==
    LET ind == Indicators(kind)
    IN  [rows |-> rows, ok |-> ok, nfeat |-> nfeat, feat_adx |-> feat_adx,
         returns |-> returns, time |-> time, close |-> close, atr |-> atr, adx |-> adx,
         ema5 |-> ind.ema5, ema8 |-> ind.ema8, ema13 |-> ind.ema13, rsi7 |-> ind.rsi7,
         macd |-> ind.macd, macd_signal |-> ind.macd_signal,
         bb_upper |-> close + ind.bb_up, bb_lower |-> close - ind.bb_lo,
         stoch_k |-> ind.stoch_k, stoch_d |-> ind.stoch_d, prev_k |-> ind.prev_k,
         prev_d |-> ind.prev_d, volume_ratio |-> ind.volume_ratio]

Oracle(fit_ok, pred_ok, cluster, conf) ==
    [fit_ok |-> fit_ok, pred_ok |-> pred_ok, cluster |-> cluster, conf |-> conf]

(***************************************************************************)
(* The backtest run                                                        *)
(***************************************************************************)
MaxBars == 3          \* bars after the warm-up that a run replays

Lookback == 500       \* m5_data = df.iloc[:i+1].tail(500)
M15Rows == 300
H1Rows == 200
DefaultFeatAdx == 20  \* features['adx'] of a frame without an adx column
RollingLoss == 32     \* rows dropna removes from the features of an OHLCV frame

BtInstruments == {"GBP_USD", "EUR_USD"}
BtMinVotes == {5, 6}
BtPrices == {12700, 12712}
BtGaps == {5, 240}
BtHours == {9}     \* hour of the wall clock while the run replays
\* <<M5, M15, H1 indicator pattern, ATR, ADX>> of a bar
BtKinds ==
    {<<"flat", "flat", "flat", 4, 30>>,
     <<"weak_buy", "weak_buy", "weak_buy", 40, 30>>,
     <<"mid_buy", "mid_buy", "mid_buy", 4, 30>>,
     <<"strong_buy", "strong_buy", "strong_buy", 4, 30>>,
     <<"strong_buy", "strong_buy", "strong_buy", 4, 10>>,
     <<"strong_sell", "strong_sell", "strong_sell", 4, 30>>,
     <<"mixed", "strong_sell", "strong_buy", 4, 30>>}
BtOracles == {Oracle(TRUE, TRUE, 0, 90), Oracle(TRUE, TRUE, 2, 90)}

\* The frames run_backtest cuts for the bar at `time`: freshly sliced OHLCV
\* frames (no indicator columns), the M5 one of 500 rows.
Bar(time, close, k) ==
    [time |-> time, close |-> close,
     m5 |-> Frame(k[1], Lookback, Lookback - RollingLoss, DefaultFeatAdx, 1,
                  close, k[4], k[5], time, TRUE),
     m15 |-> Frame(k[2], M15Rows, M15Rows - RollingLoss, DefaultFeatAdx, 1,
                   close, k[4], k[5], time, TRUE),
     h1 |-> Frame(k[3], H1Rows, H1Rows - RollingLoss, DefaultFeatAdx, 1,
                  close, k[4], k[5], time, TRUE)]

BtBars(time) == {Bar(time, c, k) : c \in BtPrices, k \in BtKinds}

DefaultGenCfg == [min_votes |-> GenMinVotes, min_strength |-> GenMinStrength]

IdleEngine == EngineInit("GBP_USD", [min_votes |-> GenMinVotes, min_strength |-> BtMinStrength])
NoCall == [n |-> 0, args |-> <<>>, time |-> 0, last |-> NoTimestamp, out |-> NoResult]
NoVote == [op |-> "none"]
NoData == [df |-> <<>>, kinds |-> <<>>, i |-> 0, mtf_data |-> <<>>]
NoRegime ==
    [calls |-> 0, regime |-> "unknown", path |-> "none", rows |-> 0, nfeat |-> 0, ok |-> TRUE,
     fitted_before |-> FALSE, fits_before |-> 0, instrument |-> "GBP_USD", high_vol |-> FALSE,
     prediction |-> <<>>]
IdleKelly == [trade_results |-> <<>>, adds |-> 0, fresh |-> FALSE]

BacktestIdle == eng = IdleEngine /\ eng2 = IdleEngine
GenIdle ==
    /\ gen = GeneratorInit(DefaultGenCfg)
    /\ gen2 = GeneratorInit(DefaultGenCfg)
    /\ res = NoCall
    /\ res2 = NoCall
RegimeIdle == det = DetectorInit /\ reg = NoRegime
KellyIdle == kc = IdleKelly /\ frac = DefaultRisk
VoteIdle == mtf = NoVote
ReplayIdle == prep = NoData

Init ==
    /\ \E i \in BtInstruments, mv \in BtMinVotes :
         eng = EngineInit(i, [min_votes |-> mv, min_strength |-> BtMinStrength])
    /\ eng2 = IdleEngine
    /\ GenIdle /\ RegimeIdle /\ KellyIdle /\ VoteIdle /\ ReplayIdle

\* The loop body on the next bar of the data.
BacktestBar ==
    /\ eng.pc = "loop"
    /\ eng.bars < MaxBars
    /\ \E gap \in BtGaps, o \in BtOracles, hour \in BtHours :
         \E bar \in BtBars(eng.last_time + gap) :
           eng' = run_bar(eng, bar, hour, o)
    /\ UNCHANGED <<eng2, gen, res, gen2, res2, det, reg, kc, frac, mtf, prep>>

\* The data is exhausted: run_backtest leaves the loop and reports.
BacktestEnd ==
    /\ eng.pc = "loop"
    /\ eng' = finish_backtest(eng)
    /\ UNCHANGED <<eng2, gen, res, gen2, res2, det, reg, kc, frac, mtf, prep>>

Next == BacktestBar \/ BacktestEnd

Spec == Init /\ [][Next]_vars

(***************************************************************************)
(* Two backtest runs over the same bars that differ in min_votes_required  *)
(***************************************************************************)
\* min_votes_required of the two runs in half votes: 2.5 and 3.0
PairMinVotes == [low |-> 5, high |-> 6]

InitPair ==
    /\ eng = EngineInit("GBP_USD", [min_votes |-> PairMinVotes.low, min_strength |-> BtMinStrength])
    /\ eng2 = EngineInit("GBP_USD", [min_votes |-> PairMinVotes.high, min_strength |-> BtMinStrength])
    /\ GenIdle /\ RegimeIdle /\ KellyIdle /\ VoteIdle /\ ReplayIdle

PairBar ==
    /\ eng.pc = "loop"
    /\ eng.bars < MaxBars
    /\ \E gap \in BtGaps, o \in BtOracles, hour \in BtHours :
         \E bar \in BtBars(eng.last_time + gap) :
           /\ eng' = run_bar(eng, bar, hour, o)
           /\ eng2' = run_bar(eng2, bar, hour, o)
    /\ UNCHANGED <<gen, res, gen2, res2, det, reg, kc, frac, mtf, prep>>

PairEnd ==
    /\ eng.pc = "loop"
    /\ eng' = finish_backtest(eng)
    /\ eng2' = finish_backtest(eng2)
    /\ UNCHANGED <<gen, res, gen2, res2, det, reg, kc, frac, mtf, prep>>

NextPair == PairBar \/ PairEnd

SpecPair == InitPair /\ [][NextPair]_vars

(***************************************************************************)
(* generate_signal called directly, on two fresh generators that get the   *)
(* same calls at their own wall-clock times                                *)
(***************************************************************************)
MaxCalls == 2

GenPrice == CHOOSE p \in BtPrices : \A q \in BtPrices : p <= q
GenInstruments == {"GBP_USD", "EUR_USD"}
GenTimestamps == {NoTimestamp, At(0), At(60), At(240)}
\* the wall clock at a call: datetime.now() and datetime.utcnow().hour
GenClocks == {[now |-> 30, hour |-> 7], [now |-> 300, hour |-> 9]}
GenOracles == {Oracle(TRUE, TRUE, 0, 90), Oracle(TRUE, TRUE, 2, 90), Oracle(TRUE, TRUE, 2, 50)}

\* A freshly fetched OHLCV frame of `rows` candles
GenFrame(kind, rows, atr, time, ok) ==
    Frame(kind, rows, Max2(0, rows - RollingLoss), DefaultFeatAdx, 1, GenPrice, atr, 30,
          time, ok)

GenKinds ==
    {"strong", "strong_wide", "flat", "split", "no_m5", "m5_only", "m5_h1", "empty",
     "short", "broken"}

\* The timeframe dictionary of each kind of input
GenData(kind, time) ==
    CASE kind = "strong" ->
           [tf \in Timeframes |-> GenFrame("strong_buy", Lookback, 4, time, TRUE)]
      [] kind = "strong_wide" ->
           [tf \in Timeframes |-> GenFrame("strong_buy", Lookback, 40, time, TRUE)]
      [] kind = "flat" ->
           [tf \in Timeframes |-> GenFrame("flat", Lookback, 4, time, TRUE)]
      [] kind = "split" ->
           [tf \in Timeframes |->
              GenFrame(CASE tf = "M5" -> "balanced" [] tf = "M15" -> "strong_sell"
                         [] tf = "H1" -> "strong_buy", Lookback, 4, time, TRUE)]
      [] kind = "no_m5" ->
           [tf \in {"M15", "H1"} |-> GenFrame("strong_buy", Lookback, 4, time, TRUE)]
      [] kind = "m5_only" ->
           [tf \in {"M5"} |-> GenFrame("strong_buy", Lookback, 4, time, TRUE)]
      [] kind = "m5_h1" ->
           [tf \in {"M5", "H1"} |-> GenFrame("strong_buy", Lookback, 4, time, TRUE)]
      [] kind = "empty" -> <<>>
      [] kind = "short" ->
           [tf \in Timeframes |-> GenFrame("strong_buy", MinRows - 1, 4, time, TRUE)]
      [] kind = "broken" ->
           [tf \in Timeframes |-> GenFrame("strong_buy", Lookback, 4, time, tf = "M5")]

\* <<how the data arrives, its kind>>
GenInputs ==
    {<<"provided", k>> : k \in GenKinds}
    \cup {<<"fetched", k>> : k \in {"strong", "no_m5", "m5_h1", "m5_only", "empty"}}

\* The time of the instrument's last stored signal, if any
LastAccepted(g, instrument) ==
    IF instrument \notin DOMAIN g.signal_history THEN NoTimestamp
    ELSE IF g.signal_history[instrument] = <<>> THEN NoTimestamp
    ELSE At(fromisoformat(g.signal_history[instrument]
                            [Len(g.signal_history[instrument])].timestamp))

\* The record of a call: its arguments, the time it is made for, the time of
\* the last accepted signal before it, and its result.
CallRecord(n, g, instrument, timestamp, input, clock, data, out) ==
    [n |-> n,
     args |-> [instrument |-> instrument, timestamp |-> timestamp, via |-> input[1],
               kind |-> input[2], tfs |-> DOMAIN data,
               whole |-> \A tf \in DOMAIN data : data[tf].ok /\ data[tf].rows >= MinRows],
     time |-> IF timestamp = NoTimestamp THEN clock.now ELSE timestamp[1],
     last |-> LastAccepted(g, instrument),
     out |-> out]

InitGen == BacktestIdle /\ GenIdle /\ RegimeIdle /\ KellyIdle /\ VoteIdle /\ ReplayIdle

GenCallOn(g, n, instrument, timestamp, input, clock, o, data) ==
    LET r == generate_signal(g, instrument, timestamp,
                             IF input[1] = "provided" THEN data ELSE <<>>,
                             IF input[1] = "fetched" THEN data ELSE <<>>,
                             clock.now, clock.hour, o)
    IN  [gen |-> r.gen,
         res |-> CallRecord(n, g, instrument, timestamp, input, clock, data, r.result)]

\* The combinations of inputs tried: one call for an instrument that is not
\* supported, the ranging cluster for the wide-ATR data only, and the
\* low-confidence prediction for provided data only.
GenCombination(i, ts, input, o) ==
    /\ i \notin SupportedInstruments => (ts = At(0) /\ input = <<"provided", "strong">>)
    /\ o.cluster = 2 => input[2] = "strong_wide"
    /\ o.conf < ConfidencePct => input[1] = "provided"

\* The same generate_signal call on both generators
GenCall ==
    /\ res.n < MaxCalls
    /\ \E i \in GenInstruments, ts \in GenTimestamps, input \in GenInputs, o \in GenOracles,
          c1 \in GenClocks, c2 \in GenClocks :
         /\ GenCombination(i, ts, input, o)
         /\ LET t == IF ts = NoTimestamp THEN 0 ELSE ts[1]
                a == GenCallOn(gen, res.n + 1, i, ts, input, c1, o, GenData(input[2], t))
                b == GenCallOn(gen2, res.n + 1, i, ts, input, c2, o, GenData(input[2], t))
            IN  gen' = a.gen /\ res' = a.res /\ gen2' = b.gen /\ res2' = b.res
    /\ UNCHANGED <<eng, eng2, det, reg, kc, frac, mtf, prep>>

NextGen == GenCall

SpecGen == InitGen /\ [][NextGen]_vars

(***************************************************************************)
(* generate_signal called on generators that have accepted signals before: *)
(* a run of calls four hours apart fills the history of GBP_USD, and the   *)
(* calls under observation are made when it is one short of its limit, or  *)
(* at it                                                                   *)
(***************************************************************************)
HistoryLengths == {MaxSignalHistory - 1, MaxSignalHistory}

\* The time of the k-th call of the run: four hours apart, the hundredth
\* 200 minutes before time 0
PastTime(k) == -200 - (MaxSignalHistory - k) * CooldownMinutes

InitHistory == InitGen

\* The next call of the run, on both generators
PastCall ==
    /\ res.n = 0
    /\ Len(gen.signal_history["GBP_USD"]) < MaxSignalHistory
    /\ LET k == Len(gen.signal_history["GBP_USD"]) + 1
           r == generate_signal(gen, "GBP_USD", At(PastTime(k)),
                                GenData("strong", PastTime(k)), <<>>, 0, 9,
                                Oracle(TRUE, TRUE, 0, 90))
       IN  /\ IsAccepted(r.result)
           /\ gen' = r.gen
           /\ gen2' = r.gen
    /\ UNCHANGED <<eng, eng2, res, res2, det, reg, kc, frac, mtf, prep>>

\* A call under observation
HistoryCall ==
    /\ Len(gen.signal_history["GBP_USD"]) \in HistoryLengths
    /\ GenCall

NextHistory == PastCall \/ HistoryCall

SpecHistory == InitHistory /\ [][NextHistory]_vars

(***************************************************************************)
(* Two generate_signal coroutines on one generator and one event loop.     *)
(* A call without provided data runs to `await fetch_multi_timeframe`, is  *)
(* suspended there, and once resumed runs to its return: the code after    *)
(* the fetch holds no other await.  res and res2 hold the two calls.       *)
(***************************************************************************)
AsyncKinds == {"strong", "no_m5", "empty"}
\* datetime.now() and datetime.utcnow().hour when a call is resumed
AsyncClocks == {[now |-> 30, hour |-> 7], [now |-> 90, hour |-> 8], [now |-> 300, hour |-> 9]}

NoAsync == [pc |-> "idle"]

\* generate_signal up to the fetch: the instrument check, then the await
BeginCall(instrument, timestamp) ==
    IF instrument \notin SupportedInstruments
    THEN [pc |-> "done", instrument |-> instrument, timestamp |-> timestamp, time |-> 0,
          now |-> 0, concurrent |-> FALSE, out |-> NoResult]
    ELSE [pc |-> "fetching", instrument |-> instrument, timestamp |-> timestamp]

\* The wall clock does not run backwards between two resumptions
ClocksAfter(other) == {c \in AsyncClocks : other.pc = "done" => c.now > other.now}

\* generate_signal from the fetch's result to the return
ResumeCall(g, c, other, kind, clock, o) ==
    LET t == IF c.timestamp = NoTimestamp THEN clock.now ELSE c.timestamp[1]
        r == generate_signal(g, c.instrument, c.timestamp, <<>>, GenData(kind, t),
                             clock.now, clock.hour, o)
    IN  [gen |-> r.gen,
         call |-> [pc |-> "done", instrument |-> c.instrument, timestamp |-> c.timestamp,
                   time |-> t, now |-> clock.now,
                   concurrent |-> other.pc = "fetching", out |-> r.result]]

InitAsync ==
    /\ BacktestIdle /\ RegimeIdle /\ KellyIdle /\ VoteIdle /\ ReplayIdle
    /\ gen = GeneratorInit(DefaultGenCfg)
    /\ gen2 = GeneratorInit(DefaultGenCfg)
    /\ res = NoAsync
    /\ res2 = NoAsync

StartFirst ==
    /\ res.pc = "idle"
    /\ \E i \in GenInstruments, ts \in GenTimestamps : res' = BeginCall(i, ts)
    /\ UNCHANGED <<eng, eng2, gen, gen2, res2, det, reg, kc, frac, mtf, prep>>

StartSecond ==
    /\ res2.pc = "idle"
    /\ \E i \in GenInstruments, ts \in GenTimestamps : res2' = BeginCall(i, ts)
    /\ UNCHANGED <<eng, eng2, gen, gen2, res, det, reg, kc, frac, mtf, prep>>

ResumeFirst ==
    /\ res.pc = "fetching"
    /\ \E kind \in AsyncKinds, clock \in ClocksAfter(res2), o \in GenOracles :
         /\ GenCombination(res.instrument, res.timestamp, <<"fetched", kind>>, o)
         /\ LET r == ResumeCall(gen, res, res2, kind, clock, o)
            IN  gen' = r.gen /\ res' = r.call
    /\ UNCHANGED <<eng, eng2, gen2, res2, det, reg, kc, frac, mtf, prep>>

ResumeSecond ==
    /\ res2.pc = "fetching"
    /\ \E kind \in AsyncKinds, clock \in ClocksAfter(res), o \in GenOracles :
         /\ GenCombination(res2.instrument, res2.timestamp, <<"fetched", kind>>, o)
         /\ LET r == ResumeCall(gen, res2, res, kind, clock, o)
            IN  gen' = r.gen /\ res2' = r.call
    /\ UNCHANGED <<eng, eng2, gen2, res, det, reg, kc, frac, mtf, prep>>

NextAsync == StartFirst \/ StartSecond \/ ResumeFirst \/ ResumeSecond

SpecAsync == InitAsync /\ [][NextAsync]_vars

(***************************************************************************)
(* detect_regime called directly                                           *)
(***************************************************************************)
MaxDetectCalls == 3

RegRows == {0, 49, 51, 52, 131, 132}
RegAdx == {15, 20, 30}
RegAtr == {4, 40}
RegOracles ==
    {Oracle(FALSE, TRUE, 0, 90), Oracle(TRUE, FALSE, 0, 90), Oracle(TRUE, TRUE, 0, 90),
     Oracle(TRUE, TRUE, 2, 90), Oracle(TRUE, TRUE, 0, 50), Oracle(TRUE, TRUE, 2, 59),
     Oracle(TRUE, TRUE, 1, 60)}
RegInstruments == {"GBP_USD", "XAU_USD"}

RegFrames(time) ==
    {Frame("flat", rows, Max2(0, rows - RollingLoss), adx, 1, GenPrice, atr, adx, time, TRUE) :
        rows \in RegRows, adx \in RegAdx, atr \in RegAtr}
    \cup {Frame("flat", 132, 0, 20, 1, GenPrice, 4, 20, time, FALSE)}

InitRegime == BacktestIdle /\ GenIdle /\ RegimeIdle /\ KellyIdle /\ VoteIdle /\ ReplayIdle

\* The record of a call; prediction is what gmm.predict and predict_proba
\* returned when the call reached them.
DetectOn(d, n, f, instrument, o, dr) ==
    [det |-> dr.det,
     reg |-> [calls |-> n, regime |-> dr.regime, path |-> dr.path, rows |-> f.rows,
              nfeat |-> f.nfeat, ok |-> f.ok, fitted_before |-> d.is_fitted,
              fits_before |-> d.fits, instrument |-> instrument,
              high_vol |-> IsHighVol(f, instrument),
              prediction |-> IF dr.path = "gmm" THEN <<o.cluster, o.conf>> ELSE <<>>]]

DetectCall ==
    /\ reg.calls < MaxDetectCalls
    /\ \E o \in RegOracles, i \in RegInstruments : \E f \in RegFrames(reg.calls + 1) :
         LET c == DetectOn(det, reg.calls + 1, f, i, o, detect_regime(det, f, i, o))
         IN  det' = c.det /\ reg' = c.reg
    /\ UNCHANGED <<eng, eng2, gen, res, gen2, res2, kc, frac, mtf, prep>>

NextRegime == DetectCall

SpecRegime == InitRegime /\ [][NextRegime]_vars

(***************************************************************************)
(* The Kelly sizer: windows of trade results, add_trade_result and         *)
(* calculate_optimal_fraction                                              *)
(***************************************************************************)
MaxKellyAdds == 2

\* A window of nw wins of win_amt, then nl losses of loss_amt, then nb
\* break-even trades, each risking `risk`.
KellyWindow(nw, nl, nb, win_amt, loss_amt, risk) ==
    KeepLast([i \in 1..(nw + nl + nb) |->
                TradeResult(IF i <= nw THEN win_amt
                            ELSE IF i <= nw + nl THEN -loss_amt ELSE 0, risk)],
             LookbackTrades)

KellyWindows ==
    {KellyWindow(nw, nl, nb, wa, la, risk) :
        nw \in {0, 5, 19, 20, 30}, nl \in {0, 1, 20, 25}, nb \in {0, 20},
        wa \in {1, 3}, la \in {1, 3}, risk \in {0, 2}}

InitKelly ==
    /\ BacktestIdle /\ GenIdle /\ RegimeIdle /\ VoteIdle /\ ReplayIdle
    /\ \E w \in KellyWindows : kc = [trade_results |-> w, adds |-> 0, fresh |-> FALSE]
    /\ frac = DefaultRisk

KellyAdd ==
    /\ kc.adds < MaxKellyAdds
    /\ \E profit_loss \in {-3, 0, 2}, risk_amount \in {0, 2} :
         kc' = [trade_results |-> add_trade_result(kc.trade_results, profit_loss, risk_amount),
                adds |-> kc.adds + 1, fresh |-> FALSE]
    /\ UNCHANGED <<eng, eng2, gen, res, gen2, res2, det, reg, frac, mtf, prep>>

KellyCalc ==
    /\ ~kc.fresh
    /\ frac' = calculate_optimal_fraction(kc.trade_results)
    /\ kc' = [kc EXCEPT !.fresh = TRUE]
    /\ UNCHANGED <<eng, eng2, gen, res, gen2, res2, det, reg, mtf, prep>>

NextKelly == KellyAdd \/ KellyCalc

SpecKelly == InitKelly /\ [][NextKelly]_vars

(***************************************************************************)
(* The voting engine called directly: analyze_timeframe on one frame and   *)
(* generate_multi_timeframe_signal on a timeframe dictionary               *)
(***************************************************************************)
\* <<ema5, ema8, ema13>>
VoteEma == {<<3, 2, 1>>, <<1, 2, 3>>, <<2, 2, 2>>}
VoteRsi == {10, 25, 40, 60, 75, 90}
\* macd, with macd_signal = 0
VoteMacd == {-1, 0, 1}
\* <<bb_upper - close, close - bb_lower>>: inside the bands at 50%, 10% and
\* 90%, above the upper band, below the lower band, bands of zero width
VoteBands == {<<10, 10>>, <<18, 2>>, <<2, 18>>, <<-1, 20>>, <<20, -1>>, <<0, 0>>}
\* <<stoch_k, stoch_d, prev stoch_k, prev stoch_d>>
VoteStoch == {<<15, 10, 8, 9>>, <<85, 90, 92, 91>>, <<50, 50, 50, 50>>}
VoteVolume == {100, 150}
VoteRows == {MinRows - 1, MinRows}

\* An indicator frame with the given latest values
VoteFrame(rows, e, rsi, m, b, st, v) ==
    [rows |-> rows, ok |-> TRUE, close |-> GenPrice, atr |-> 4, adx |-> 30,
     ema5 |-> e[1], ema8 |-> e[2], ema13 |-> e[3], rsi7 |-> rsi,
     macd |-> m, macd_signal |-> 0,
     bb_upper |-> GenPrice + b[1], bb_lower |-> GenPrice - b[2],
     stoch_k |-> st[1], stoch_d |-> st[2], prev_k |-> st[3], prev_d |-> st[4],
     volume_ratio |-> v]

AnalyzeRecord(f, regime) ==
    [op |-> "analyze", regime |-> regime, frame |-> f, out |-> analyze_timeframe(f, regime)]

\* An analyze_timeframe call to make: a frame and a regime
AnalyzeRequest(f, regime) == [op |-> "analyze_request", regime |-> regime, frame |-> f]

\* analyze_timeframe(df, market_regime) on the requested frame
AnalyzeCall ==
    /\ mtf.op = "analyze_request"
    /\ mtf' = AnalyzeRecord(mtf.frame, mtf.regime)
    /\ UNCHANGED <<eng, eng2, gen, res, gen2, res2, det, reg, kc, frac, prep>>

\* The inputs of generate_multi_timeframe_signal: any subset of the
\* timeframes, each with one of the indicator patterns; the M5 frame empty,
\* too short or whole; ATR% below, inside and above the volatility range.
MtfKinds == {"flat", "weak_buy", "strong_buy", "strong_sell", "mixed"}
MtfM5Rows == {0, MinRows - 1, Lookback}
MtfAtr == {0, 4, 200}
MtfAdx == {10, 30}
MtfRegimes ==
    {"trending_up_low_volatility", "trending_down_high_volatility",
     "ranging_low_volatility", "transitional", "unknown"}
MtfCfgs == {[min_votes |-> mv, min_strength |-> ms] : mv \in {4, 6}, ms \in {25, 40}}

MtfData(kinds, m5rows, atr, adx) ==
    [tf \in DOMAIN kinds |->
       Frame(kinds[tf], IF tf = "M5" THEN m5rows ELSE Lookback, 0, DefaultFeatAdx, 1,
             GenPrice, atr, adx, 0, TRUE)]

MtfRecord(data, regime, cfg) ==
    [op |-> "mtf", regime |-> regime, cfg |-> cfg, tfs |-> DOMAIN data,
     m5rows |-> IF "M5" \in DOMAIN data THEN data["M5"].rows ELSE 0,
     out |-> generate_multi_timeframe_signal(data, regime, cfg)]

\* A generate_multi_timeframe_signal call to make
MtfRequest(data, regime, cfg) ==
    [op |-> "mtf_request", regime |-> regime, cfg |-> cfg, data |-> data]

\* generate_multi_timeframe_signal(instrument_data, market_regime) on the
\* requested data
MtfCall ==
    /\ mtf.op = "mtf_request"
    /\ mtf' = MtfRecord(mtf.data, mtf.regime, mtf.cfg)
    /\ UNCHANGED <<eng, eng2, gen, res, gen2, res2, det, reg, kc, frac, prep>>

InitAnalyze ==
    \E rows \in VoteRows, e \in VoteEma, rsi \in VoteRsi, m \in VoteMacd, b \in VoteBands,
       st \in VoteStoch, v \in VoteVolume, regime \in Regimes :
      mtf = AnalyzeRequest(VoteFrame(rows, e, rsi, m, b, st, v), regime)

InitMtf ==
    \E S \in SUBSET Timeframes, m5rows \in MtfM5Rows, atr \in MtfAtr, adx \in MtfAdx,
       regime \in MtfRegimes, cfg \in MtfCfgs :
      \E kinds \in [S -> MtfKinds] :
        mtf = MtfRequest(MtfData(kinds, m5rows, atr, adx), regime, cfg)

InitVote ==
    /\ BacktestIdle /\ GenIdle /\ RegimeIdle /\ KellyIdle /\ ReplayIdle
    /\ (InitAnalyze \/ InitMtf)

NextVote == AnalyzeCall \/ MtfCall

SpecVote == InitVote /\ [][NextVote]_vars

(***************************************************************************)
(* run_backtest replaying fetched M5 candles: the resampled M15 and H1     *)
(* frames, the slices cut for each bar, and the loop body on them          *)
(***************************************************************************)
ReplayBars == 3       \* M5 candles after the warm-up in the fetched data

\* Minutes of the first candle after the warm-up
ReplayStarts == {60, 65}
\* Closes of the candles, in pips
ReplayPrices == {12700, 12704, 12712}
\* How far the low and the high of a candle lie from its close, in pips
ReplayShapes == {[down |-> 1, up |-> 1], [down |-> 10, up |-> 1], [down |-> 1, up |-> 20]}
\* The indicator patterns of the window that ends at a candle
ReplayKinds ==
    {<<"strong_buy", "strong_buy", "strong_buy", 4, 30>>,
     <<"strong_sell", "strong_sell", "strong_sell", 4, 30>>}

\* One row of the M5 DataFrame _process_candles builds
M5Candle(time, close, shape) ==
    [time |-> time, open |-> close, high |-> close + shape.up, low |-> close - shape.down,
     close |-> close, volume |-> 1]

RECURSIVE Ascending(_)
\* The elements of a set of numbers in increasing order
Ascending(S) ==
    IF S = {} THEN <<>>
    ELSE LET m == CHOOSE x \in S : \A y \in S : x <= y
         IN  <<m>> \o Ascending(S \ {m})

RECURSIVE SumVolume(_, _)
SumVolume(df, ks) ==
    IF ks = {} THEN 0
    ELSE LET k == CHOOSE x \in ks : TRUE
         IN  df[k].volume + SumVolume(df, ks \ {k})

\* The bin of a timestamp: bins are closed and labelled on the left
BinLabel(time, width) == (time \div width) * width

\* agg: open first, high max, low min, close last, volume sum over the rows ks
Aggregate(df, label, ks) ==
    [time |-> label,
     open |-> df[CHOOSE k \in ks : \A j \in ks : k <= j].open,
     high |-> CHOOSE h \in {df[k].high : k \in ks} : \A k \in ks : df[k].high <= h,
     low |-> CHOOSE l \in {df[k].low : k \in ks} : \A k \in ks : l <= df[k].low,
     close |-> df[CHOOSE k \in ks : \A j \in ks : j <= k].close,
     volume |-> SumVolume(df, ks)]

ResampleRows(df, width, labels) ==
    [j \in DOMAIN labels |->
       Aggregate(df, labels[j], {k \in DOMAIN df : BinLabel(df[k].time, width) = labels[j]})]

\* df.resample(width).agg(...).dropna(): one row per bin that holds a candle
resample(df, width) ==
    ResampleRows(df, width, Ascending({BinLabel(df[k].time, width) : k \in DOMAIN df}))

IsUpTo(row, current_time) == row.time <= current_time

\* frame[frame.index <= current_time]
UpTo(frame, current_time) ==
    IF frame = <<>> THEN <<>>
    ELSE LET n == Cardinality({j \in DOMAIN frame : IsUpTo(frame[j], current_time)})
         IN  SubSeq(frame, 1, n)

\* The rows of m5_data, m15_data and h1_data for bar i of df, given the
\* frames resampled before the loop
SliceFrames(df, df_m15, df_h1, i) ==
    [M5 |-> KeepLast(SubSeq(df, 1, i), Lookback),
     M15 |-> KeepLast(UpTo(df_m15, df[i].time), M15Rows),
     H1 |-> KeepLast(UpTo(df_h1, df[i].time), H1Rows)]

\* mtf_data of bar i as run_backtest prepares it
PrepareFrames(df, i) == SliceFrames(df, resample(df, 15), resample(df, 60), i)

\* The fetched data: ReplayBars candles five minutes apart
ReplayData(start, closes, shapes) ==
    [k \in 1..ReplayBars |-> M5Candle(start + 5 * (k - 1), closes[k], shapes[k])]

InitReplay ==
    /\ \E start \in ReplayStarts, closes \in [1..ReplayBars -> ReplayPrices],
          shapes \in [1..ReplayBars -> ReplayShapes], kinds \in [1..ReplayBars -> ReplayKinds] :
         prep = [df |-> ReplayData(start, closes, shapes), kinds |-> kinds, i |-> 0,
                 mtf_data |-> <<>>]
    /\ eng = EngineInit("GBP_USD", [min_votes |-> PairMinVotes.low, min_strength |-> BtMinStrength])
    /\ eng2 = IdleEngine
    /\ GenIdle /\ RegimeIdle /\ KellyIdle /\ VoteIdle

\* The loop body on the next candle of the fetched data
ReplayBar ==
    /\ eng.pc = "loop"
    /\ prep.i < Len(prep.df)
    /\ \E o \in BtOracles, hour \in BtHours :
         eng' = run_bar(eng, Bar(prep.df[prep.i + 1].time, prep.df[prep.i + 1].close,
                                 prep.kinds[prep.i + 1]), hour, o)
    /\ prep' = [prep EXCEPT !.i = @ + 1, !.mtf_data = PrepareFrames(prep.df, prep.i + 1)]
    /\ UNCHANGED <<eng2, gen, res, gen2, res2, det, reg, kc, frac, mtf>>

\* The data is exhausted
ReplayEnd ==
    /\ eng.pc = "loop"
    /\ prep.i = Len(prep.df)
    /\ eng' = finish_backtest(eng)
    /\ UNCHANGED <<eng2, gen, res, gen2, res2, det, reg, kc, frac, mtf, prep>>

NextReplay == ReplayBar \/ ReplayEnd

SpecReplay == InitReplay /\ [][NextReplay]_vars

(***************************************************************************)
(* Properties of the backtest run                                          *)
(***************************************************************************)
\* C1: at every bar of run_backtest at most one position is open: _open_trade
\* is never executed while open_position is set, so every position opened so
\* far is either a recorded (closed) trade or the single one still open.
C1_SinglePosition ==
    /\ eng.opened = Len(eng.trades) + (IF HasPosition(eng) THEN 1 ELSE 0)
    /\ eng.total_trades = Len(eng.trades)

\* A second position is open after the first one was closed and recorded.
C1_Witness == eng.opened = 2 /\ Len(eng.trades) = 1 /\ HasPosition(eng)

\* C2: after any sequence of opens and closes the balance is initial_balance
\* plus the sum of the recorded trades' pnl, and the report's final_balance
\* and net_profit are that sum added to, respectively taken without, the
\* initial balance.
C2_BalanceConservation ==
    /\ eng.balance = eng.initial_balance + SumField(eng.trades, "pnl")
    /\ (eng.pc = "done" /\ ~IsNone(eng.results)) =>
         /\ eng.results.final_balance =
              eng.results.initial_balance + SumField(eng.results.trades, "pnl")
         /\ eng.results.net_profit = SumField(eng.results.trades, "pnl")

\* A finished run that reports a winning and a losing trade.
C2_Witness ==
    /\ eng.pc = "done"
    /\ ~IsNone(eng.results)
    /\ \E i, j \in 1..Len(eng.trades) : eng.trades[i].pnl > 0 /\ eng.trades[j].pnl < 0

\* C6: the backtest loop never skips a bar on error: once generate_signal has
\* given no result on a bar, no later bar is processed, and the run returns a
\* result marked as truncated.
C6_StopsAtFailedBar ==
    eng.first_skip > 0 =>
        /\ eng.bars = eng.first_skip
        /\ eng.pc = "done" => (~IsNone(eng.results) /\ "truncated" \in DOMAIN eng.results)

\* C7 (as stated): over the same bars, the run with the larger
\* min_votes_required (eng2) has opened no more trades than the run with the
\* smaller one (eng).
C7_AcceptedMonotone == eng2.opened <= eng.opened

\* C7 (amended): on a bar where both runs evaluate the signal (the run with
\* the smaller min_votes_required neither holds a position nor is in
\* cooldown) under the same regime, a signal the run with the larger
\* min_votes_required accepts is accepted by the other run as well.
C7_PerBarMonotone ==
    (/\ eng.bars = eng2.bars
     /\ eng2.last_bar = "accepted"
     /\ eng.last_bar \notin {"held", "cooldown"}
     /\ eng.last_regime = eng2.last_regime)
    => eng.last_bar = "accepted"

\* Both runs accept the signal of a bar after the first.
C7_Witness ==
    /\ eng.bars >= 2 /\ eng.bars = eng2.bars
    /\ eng2.last_bar = "accepted" /\ eng.last_bar = "accepted"
    /\ eng2.signal_generator.mtf_engine.min_votes > eng.signal_generator.mtf_engine.min_votes

(***************************************************************************)
(* Properties of generate_signal                                           *)
(***************************************************************************)
\* C3: when the instrument's last accepted signal was returned at t0 and a
\* further check of the same instrument is made at t with 0 <= t - t0 < 4h,
\* that check is Rejected with the cooldown reason, whatever data it gets.
C3_CooldownRejects ==
    (/\ res.n >= 2
     /\ res.last # NoTimestamp
     /\ 0 <= res.time - res.last[1]
     /\ res.time - res.last[1] < CooldownMinutes)
    => (IsRejected(res.out) /\ res.out.reason = CooldownReason)

\* C8: two fresh generators given the same calls, with the same injected
\* candles, as-of timestamp and configuration, return the same result in
\* every field, whatever the wall clock of each run.
C8_Deterministic ==
    (res.n > 0 /\ res.args = res2.args /\ res.args.timestamp # NoTimestamp)
    => res.out = res2.out

\* The confidence a result carries, if it carries one
CarriesConfidence(r) ==
    "confidence" \in DOMAIN r \/ "mtf_signal" \in DOMAIN r
ConfidenceOf(r) ==
    IF "confidence" \in DOMAIN r THEN r.confidence ELSE r.mtf_signal.confidence

\* C9: when the fetch delivers a non-empty subset of the configured
\* timeframes (M5 may be the one missing), each frame whole, generate_signal
\* returns an Accepted or Rejected result, never no result, and the
\* confidence it reports is the weight of the timeframes present.
C9_PartialJoin ==
    (/\ res.n > 0
     /\ res.args.instrument \in SupportedInstruments
     /\ res.args.via = "fetched"
     /\ res.args.tfs # {} /\ res.args.tfs \subseteq Timeframes
     /\ res.args.whole)
    => /\ ~IsNone(res.out)
       /\ CarriesConfidence(res.out) => ConfidenceOf(res.out) = TotalWeight(res.args.tfs)

\* C10: every Rejected result, whatever the reason, carries the regime, the
\* raw buy and sell votes and the hypothetical entry, stop-loss and
\* take-profit levels.
C10_RejectedDiagnostics ==
    IsRejected(res.out) =>
        /\ "regime" \in DOMAIN res.out
        /\ "mtf_signal" \in DOMAIN res.out
        /\ {"buy_votes", "sell_votes"} \subseteq DOMAIN res.out.mtf_signal
        /\ {"proposed_entry", "proposed_stop_loss", "proposed_take_profit"}
             \subseteq DOMAIN res.out

(***************************************************************************)
(* Properties of detect_regime                                             *)
(***************************************************************************)
\* The frame is one the rule-based classifier can work on
RegUsable == reg.rows >= MinRows /\ reg.ok /\ reg.nfeat >= MinFeatureRows

\* C5 (as stated): a call whose input yields fewer than 100 feature rows
\* (and enough rows to classify at all) returns the rule-based
\* classification, never the mixture-model prediction, also after an earlier
\* call with 100 or more rows.
C5_RuleBasedBelow100 ==
    (reg.calls > 0 /\ reg.nfeat < MinFitRows /\ RegUsable) => reg.path = "rule"

\* C5 (amended): a call whose input yields fewer than 100 feature rows never
\* fits the mixture model; on a detector no earlier call has fitted it
\* returns the rule-based classification (UNKNOWN exactly when the frame has
\* fewer than 50 rows or fewer than 20 feature rows), and it returns the
\* mixture-model prediction only when an earlier call has fitted the model.
C5_RuleBasedUntilFitted ==
    (reg.calls > 0 /\ reg.nfeat < MinFitRows) =>
        /\ reg.path = "gmm" => reg.fitted_before
        /\ reg.path = "none" <=> ~RegUsable
        /\ reg.path = "none" => reg.regime = "unknown"
        /\ reg.path = "rule" => reg.regime \in Regimes \ {"unknown"}
        /\ (RegUsable /\ ~reg.fitted_before) => reg.path = "rule"
        /\ det.is_fitted = reg.fitted_before

\* A call with fewer than 100 feature rows answered by the mixture model
\* that an earlier call has fitted.
C5_Witness ==
    /\ reg.calls >= 2 /\ reg.nfeat < MinFitRows /\ RegUsable
    /\ reg.fitted_before /\ reg.path = "gmm"

(***************************************************************************)
(* Properties of the Kelly sizer                                           *)
(***************************************************************************)
\* C4: calculate_optimal_fraction returns a value in [min_risk, max_risk] =
\* [0.005, 0.03] for every window: empty, fewer than 20 samples, all wins,
\* all losses, only break-even trades, mixed, zero average loss.
C4_KellyBounded == RLe(MinRisk, frac) /\ RLe(frac, MaxRisk)

\* A mixed window of 20 or more trades whose Kelly value is clamped from below.
C4_Witness ==
    /\ kc.fresh
    /\ Len(kc.trade_results) >= MinKellyTrades
    /\ SumField(kc.trade_results, "win") > 0
    /\ SumField(kc.trade_results, "win") < Len(kc.trade_results)
    /\ SumField(kc.trade_results, "loss_amount") > SumField(kc.trade_results, "win_amount")
    /\ REq(frac, MinRisk)

(***************************************************************************)
(* Properties of the instrument lookup                                     *)
(***************************************************************************)
\* C11: a generate_signal request for an instrument without a configuration
\* is answered with a structured error: never with no result, and never
\* with a result computed from another instrument's parameters.
C11_UnknownInstrumentError ==
    (res.n > 0 /\ res.args.instrument \notin ConfiguredInstruments)
    => (~IsNone(res.out) /\ "error" \in DOMAIN res.out)

(***************************************************************************)
(* Properties of the voting engine                                         *)
(***************************************************************************)
\* C12: every result of analyze_timeframe has 0 <= strength <= 100 and
\* buy_votes + sell_votes <= 6.5 (13 half votes), and every result of
\* generate_multi_timeframe_signal has 0 <= strength <= 100.
C12_StrengthAndVotesBounded ==
    /\ mtf.op = "analyze" =>
         /\ RLe(Ratio(0, 1), mtf.out.strength)
         /\ RLe(mtf.out.strength, Ratio(100, 1))
         /\ mtf.out.buy_votes >= 0 /\ mtf.out.sell_votes >= 0
         /\ mtf.out.buy_votes + mtf.out.sell_votes <= 13
    /\ mtf.op = "mtf" =>
         /\ RLe(Ratio(0, 1), mtf.out.strength)
         /\ RLe(mtf.out.strength, Ratio(100, 1))

\* A frame on which five indicators and the volume boost vote for the same side.
C12_Witness ==
    /\ mtf.op = "analyze"
    /\ mtf.out.buy_votes = 11
    /\ mtf.out.sell_votes = 0
    /\ REq(mtf.out.strength, Ratio(1100, 12))

(***************************************************************************)
(* Properties of the regime gate                                           *)
(***************************************************************************)
\* The result is the rejection of step 3 of generate_signal
IsRegimeRejection(r) ==
    ~IsNone(r) /\ "reason" \in DOMAIN r /\ r.reason = "Unfavorable market regime"

\* The result went through the multi-timeframe voting
WentToVoting(r) ==
    ~IsNone(r) /\ ("mtf_signal" \in DOMAIN r \/ "timeframe_signals" \in DOMAIN r)

\* C13: should_trade is false exactly for ranging_high_volatility and unknown,
\* and a generate_signal result that names its regime is the unfavorable-regime
\* rejection exactly when that regime is one of the two; for every other
\* regime, transitional included, the result comes from the voting.
C13_UnfavorableExactly ==
    /\ \A r \in Regimes :
         should_trade(r) <=> r \notin {"ranging_high_volatility", "unknown"}
    /\ (res.n > 0 /\ ~IsNone(res.out) /\ "regime" \in DOMAIN res.out) =>
         /\ IsRegimeRejection(res.out)
               <=> res.out.regime \in {"ranging_high_volatility", "unknown"}
         /\ ~IsRegimeRejection(res.out) => WentToVoting(res.out)

\* A request classified as transitional whose result comes from the voting
C13_Witness ==
    /\ res.n > 0 /\ ~IsNone(res.out) /\ "regime" \in DOMAIN res.out
    /\ res.out.regime = "transitional"
    /\ WentToVoting(res.out)

\* A request rejected for a ranging, highly volatile market
C13_WitnessRejected ==
    /\ res.n > 0 /\ IsRegimeRejection(res.out)
    /\ res.out.regime = "ranging_high_volatility"

(***************************************************************************)
(* Properties of the mixture-model path                                    *)
(***************************************************************************)
\* C14: whenever the mixture-model path classifies with a maximum posterior
\* below 0.6, the regime returned (and recorded in regime_history) is
\* transitional, whatever the predicted cluster, the volatility level and the
\* instrument.
C14_LowPosteriorTransitional ==
    (reg.calls > 0 /\ reg.path = "gmm" /\ reg.prediction[2] < ConfidencePct) =>
        /\ reg.regime = "transitional"
        /\ det.regime_history[Len(det.regime_history)].regime = "transitional"

\* A highly volatile frame predicted as the ranging cluster with posterior 0.59
C14_Witness ==
    /\ reg.calls > 0 /\ reg.path = "gmm"
    /\ reg.prediction = <<2, 59>>
    /\ reg.high_vol /\ reg.instrument = "GBP_USD"
    /\ reg.regime = "transitional"

\* C18: across any sequence of detect_regime calls on one detector, a call
\* fits the mixture model and its scaler only when the detector is not yet
\* fitted and the call has at least 100 feature rows (a fit that raises
\* leaves is_fitted false); a call on a fitted detector never refits; so the
\* detector becomes fitted at most once, and is_fitted never returns to false.
C18_FitOnce ==
    reg.calls > 0 =>
        /\ det.fits \in {reg.fits_before, reg.fits_before + 1}
        /\ det.fits > reg.fits_before => (~reg.fitted_before /\ reg.nfeat >= MinFitRows)
        /\ reg.fitted_before => (det.is_fitted /\ det.fits = reg.fits_before)
        /\ (det.is_fitted /\ ~reg.fitted_before) =>
              (det.fits = reg.fits_before + 1 /\ reg.nfeat >= MinFitRows)
        /\ det.is_fitted => det.fits >= 1

\* is_fitted never goes from true to false, and a fitted detector is not fitted again
C18_FittedForGood ==
    [][det.is_fitted => (det'.is_fitted /\ det'.fits = det.fits)]_vars

\* A call with 100 or more feature rows on a detector that an earlier call
\* has fitted: the model is left as it is.
C18_Witness ==
    /\ reg.calls >= 2 /\ reg.fitted_before /\ reg.nfeat >= MinFitRows
    /\ det.is_fitted /\ det.fits = reg.fits_before /\ reg.path = "gmm"

(***************************************************************************)
(* Properties of the replayed run                                          *)
(***************************************************************************)
\* C15: at bar i the M5, M15 and H1 frames handed to the signal generator
\* depend only on the M5 candles with index <= i: they are the frames the
\* same preparation cuts from the data truncated after bar i.
C15_NoLookahead ==
    prep.i > 0 => prep.mtf_data = PrepareFrames(SubSeq(prep.df, 1, prep.i), prep.i)

\* The M5 slice alone never reaches past the current bar
C15_M5NoLookahead ==
    prep.i > 0 => \A k \in DOMAIN prep.mtf_data.M5 :
                     prep.mtf_data.M5[k].time <= prep.df[prep.i].time

\* The candle's range reaches the stop-loss of the position
StopTouched(pos, c) ==
    IF pos.direction = "BUY" THEN c.low <= pos.stop_loss ELSE c.high >= pos.stop_loss

\* The candle's range reaches the take-profit of the position
TargetTouched(pos, c) ==
    IF pos.direction = "BUY" THEN c.high >= pos.take_profit ELSE c.low <= pos.take_profit

\* Between e and e1 the open position was closed at `price` for `reason` at `time`
ClosedOnBar(e, e1, price, reason, time) ==
    /\ Len(e1.trades) = Len(e.trades) + 1
    /\ e1.trades[Len(e1.trades)].exit_price = price
    /\ e1.trades[Len(e1.trades)].reason = reason
    /\ e1.trades[Len(e1.trades)].exit_time = time
    /\ e1.trades[Len(e1.trades)].entry_time = e.open_position.entry_time

\* What a bar must do to an open position according to the exit priority
ExitByRange(e, e1, c) ==
    IF StopTouched(e.open_position, c)
    THEN ClosedOnBar(e, e1, e.open_position.stop_loss, "Stop Loss", c.time)
    ELSE IF TargetTouched(e.open_position, c)
    THEN ClosedOnBar(e, e1, e.open_position.take_profit, "Take Profit", c.time)
    ELSE e1.open_position = e.open_position /\ e1.trades = e.trades

\* C16: on each bar with an open position the exits are checked in priority
\* order on the bar's low and high: stop-loss touched (BUY: low <= stop; SELL:
\* high >= stop) closes on that bar at the stop price; otherwise take-profit
\* touched (BUY: high >= target; SELL: low <= target) closes at the
\* take-profit price; otherwise the position stays open.
C16_ExitsUseLowHigh ==
    [][(prep'.i = prep.i + 1 /\ HasPosition(eng))
         => ExitByRange(eng, eng', prep.df[prep.i + 1])]_vars

\* The same priority order on the close of the bar alone, as _update_position
\* applies it
C16_ExitsUseClose ==
    [][(prep'.i = prep.i + 1 /\ HasPosition(eng))
         => ExitByRange(eng, eng', [low |-> prep.df[prep.i + 1].close,
                                    high |-> prep.df[prep.i + 1].close,
                                    time |-> prep.df[prep.i + 1].time])]_vars

(***************************************************************************)
(* Properties of the cooldown                                              *)
(***************************************************************************)
\* The result is the cooldown rejection of step 1.5 of generate_signal
IsCooldownRejection(r) ==
    ~IsNone(r) /\ "reason" \in DOMAIN r /\ r.reason = CooldownReason

\* C17: a generate_signal call rejected for cooldown runs no analysis: its
\* result names neither a regime nor votes, and the regime detector
\* (is_fitted, regime_history, the fits made), the Kelly trade window and the
\* signal history of the generator are what they were before the call.
C17_CooldownLeavesState ==
    [][(res'.n = res.n + 1 /\ IsCooldownRejection(res'.out)) =>
         /\ gen'.regime_detector = gen.regime_detector
         /\ gen'.kelly_criterion = gen.kelly_criterion
         /\ gen'.signal_history = gen.signal_history
         /\ "regime" \notin DOMAIN res'.out
         /\ "mtf_signal" \notin DOMAIN res'.out]_vars

\* A second call rejected for cooldown on a fitted detector whose history
\* still holds the one classification of the accepted first call
C17_Witness ==
    /\ res.n = 2
    /\ IsCooldownRejection(res.out)
    /\ gen.regime_detector.is_fitted
    /\ Len(gen.regime_detector.regime_history) = 1
    /\ Len(gen.signal_history[res.args.instrument]) = 1

\* The profit of closing the position pos at exit_price
PositionPnl(pos, exit_price) ==
    IF pos.direction = "BUY" THEN (exit_price - pos.entry_price) * pos.position_size
    ELSE (pos.entry_price - exit_price) * pos.position_size

\* C19: when run_backtest returns no position is open; a position still open
\* after the last bar is closed at the final bar's close with reason
\* "End of backtest", its pnl is added to the balance, and the trade is the
\* last of the trade list, also in the results returned.
C19_ClosedAtEnd ==
    [][(eng.pc = "loop" /\ eng'.pc = "done") =>
         /\ ~HasPosition(eng')
         /\ HasPosition(eng) =>
              /\ Len(eng'.trades) = Len(eng.trades) + 1
              /\ SubSeq(eng'.trades, 1, Len(eng.trades)) = eng.trades
              /\ eng'.trades[Len(eng'.trades)].reason = "End of backtest"
              /\ eng'.trades[Len(eng'.trades)].exit_price = prep.df[Len(prep.df)].close
              /\ eng'.trades[Len(eng'.trades)].exit_time = prep.df[Len(prep.df)].time
              /\ eng'.trades[Len(eng'.trades)].entry_time = eng.open_position.entry_time
              /\ eng'.trades[Len(eng'.trades)].pnl =
                   PositionPnl(eng.open_position, prep.df[Len(prep.df)].close)
              /\ eng'.balance = eng.balance + eng'.trades[Len(eng'.trades)].pnl
              /\ ~IsNone(eng'.results)
              /\ eng'.results.trades = eng'.trades
              /\ eng'.results.final_balance = eng'.balance
         /\ ~HasPosition(eng) => (eng'.trades = eng.trades /\ eng'.balance = eng.balance)]_vars

\* When run_backtest has returned, no position is open
C19_NoneOpenWhenDone == eng.pc = "done" => ~HasPosition(eng)

\* A run that ends with a position closed at the last close at a profit
C19_Witness ==
    /\ eng.pc = "done"
    /\ eng.trades # <<>>
    /\ eng.trades[Len(eng.trades)].reason = "End of backtest"
    /\ eng.trades[Len(eng.trades)].pnl > 0
    /\ eng.balance = InitialBalance + eng.trades[Len(eng.trades)].pnl

(***************************************************************************)
(* Properties of the quality filters                                       *)
(***************************************************************************)
\* The side the weighted votes of the last call chose before the filters
CandidateOf(r) ==
    IF RLe(Ratio(r.cfg.min_votes, 1), r.out.buy_votes) /\ RLt(r.out.sell_votes, r.out.buy_votes)
    THEN "BUY"
    ELSE IF RLe(Ratio(r.cfg.min_votes, 1), r.out.sell_votes)
            /\ RLt(r.out.buy_votes, r.out.sell_votes)
    THEN "SELL"
    ELSE "NO_ACTION"

\* The strength of the candidate before the filters: its votes out of 6
CandidateStrength(r) ==
    IF CandidateOf(r) = "BUY"
    THEN Ratio(r.out.buy_votes.n * 100, 2 * TotalIndicators * r.out.buy_votes.d)
    ELSE Ratio(r.out.sell_votes.n * 100, 2 * TotalIndicators * r.out.sell_votes.d)

\* A call on some data whose votes chose BUY or SELL and whose filters failed
FilteredCandidate(r) ==
    /\ r.op = "mtf" /\ r.tfs # {}
    /\ CandidateOf(r) \in {"BUY", "SELL"}
    /\ ~r.out.passed_filters

\* The result is NO_ACTION with strength 0 and keeps the diagnostics
KeepsDiagnostics(out, strength) ==
    /\ out.signal = "NO_ACTION"
    /\ REq(out.strength, Ratio(0, 1))
    /\ {"volatility_ok", "strength_ok", "adx_ok", "spread_ok", "reasons", "atr_pct", "adx",
        "strength"} \subseteq DOMAIN out.filter_results
    /\ out.filter_results.reasons # {}
    /\ ~(out.filter_results.volatility_ok /\ out.filter_results.strength_ok
         /\ out.filter_results.adx_ok /\ out.filter_results.spread_ok)
    /\ REq(out.filter_results.strength, strength)

\* C20: whenever a BUY or SELL candidate fails a quality filter,
\* generate_multi_timeframe_signal returns NO_ACTION with strength 0 and
\* passed_filters false, and filter_results carries the per-filter booleans,
\* the raw ATR%, ADX and pre-filter strength, and the failure reasons.
C20_FilteredKeepsDiagnostics ==
    FilteredCandidate(mtf) => KeepsDiagnostics(mtf.out, CandidateStrength(mtf))

\* The same for the calls whose data holds a non-empty M5 frame
C20_FilteredWithM5 ==
    (FilteredCandidate(mtf) /\ mtf.m5rows > 0)
        => KeepsDiagnostics(mtf.out, CandidateStrength(mtf))

\* A BUY candidate on M5 data rejected by the filters, diagnostics kept
C20_WitnessWithM5 ==
    /\ FilteredCandidate(mtf) /\ mtf.m5rows >= MinRows
    /\ CandidateOf(mtf) = "BUY"
    /\ ~mtf.out.filter_results.adx_ok
    /\ mtf.out.filter_results.strength_ok

(***************************************************************************)
(* Properties of the aggregate vote                                        *)
(***************************************************************************)
\* The larger of the two weighted vote averages of the last call, out of 6, in percent
DominantStrength(r) ==
    IF RLt(r.out.buy_votes, r.out.sell_votes)
    THEN Ratio(r.out.sell_votes.n * 100, 2 * TotalIndicators * r.out.sell_votes.d)
    ELSE Ratio(r.out.buy_votes.n * 100, 2 * TotalIndicators * r.out.buy_votes.d)

\* C21: when the vote thresholds give NO_ACTION, the strength that
\* generate_multi_timeframe_signal returns equals max(avg_buy, avg_sell) / 6 *
\* 100, so that it is available for rejection diagnostics.
C21_StrengthOnNoAction ==
    (mtf.op = "mtf" /\ mtf.tfs # {} /\ CandidateOf(mtf) = "NO_ACTION")
        => REq(mtf.out.strength, DominantStrength(mtf))

\* The strength is the dominant average whenever the filters pass
C21_StrengthWhenPassed ==
    (mtf.op = "mtf" /\ mtf.tfs # {} /\ mtf.out.passed_filters)
        => REq(mtf.out.strength, DominantStrength(mtf))

\* The timeframes of the last call whose own net vote is for the side dir
MatchingTFs(r, dir) ==
    {tf \in DOMAIN r.out.timeframe_signals : Direction(r.out.timeframe_signals[tf]) = dir}

\* C22: the agreement equals the fraction of the analysed timeframes whose
\* own net vote direction matches the aggregate direction; a timeframe whose
\* buy and sell votes differ by at most 0.5 is NEUTRAL and never a match.
C22_AgreementMatchesAggregate ==
    (mtf.op = "mtf" /\ mtf.tfs # {} /\ CandidateOf(mtf) \in {"BUY", "SELL"}) =>
        REq(mtf.out.agreement,
            Ratio(Cardinality(MatchingTFs(mtf, CandidateOf(mtf))),
                  Cardinality(DOMAIN mtf.out.timeframe_signals)))

\* What the agreement is: the share of the most common direction, NEUTRAL included
C22_AgreementMostCommon ==
    (mtf.op = "mtf" /\ DOMAIN mtf.out.timeframe_signals # {}) =>
        /\ \E dir \in {"BUY", "SELL", "NEUTRAL"} :
             REq(mtf.out.agreement,
                 Ratio(Cardinality(MatchingTFs(mtf, dir)),
                       Cardinality(DOMAIN mtf.out.timeframe_signals)))
        /\ \A dir \in {"BUY", "SELL", "NEUTRAL"} :
             RLe(Ratio(Cardinality(MatchingTFs(mtf, dir)),
                       Cardinality(DOMAIN mtf.out.timeframe_signals)),
                 mtf.out.agreement)

\* C23: generate_multi_timeframe_signal returns BUY only if avg_buy >=
\* min_votes_required and avg_buy > avg_sell, SELL only if avg_sell >=
\* min_votes_required and avg_sell > avg_buy, and NO_ACTION whenever neither
\* holds, equal averages included.
C23_DecisionRule ==
    mtf.op = "mtf" =>
        /\ mtf.out.signal \in {"BUY", "SELL", "NO_ACTION"}
        /\ mtf.out.signal = "BUY" =>
             /\ RLe(Ratio(mtf.cfg.min_votes, 1), mtf.out.buy_votes)
             /\ RLt(mtf.out.sell_votes, mtf.out.buy_votes)
        /\ mtf.out.signal = "SELL" =>
             /\ RLe(Ratio(mtf.cfg.min_votes, 1), mtf.out.sell_votes)
             /\ RLt(mtf.out.buy_votes, mtf.out.sell_votes)
        /\ (mtf.tfs # {} /\ CandidateOf(mtf) = "NO_ACTION") => mtf.out.signal = "NO_ACTION"
        /\ REq(mtf.out.buy_votes, mtf.out.sell_votes) => mtf.out.signal = "NO_ACTION"

\* A SELL returned on averages that meet the threshold
C23_Witness ==
    /\ mtf.op = "mtf" /\ mtf.out.signal = "SELL"
    /\ mtf.cfg.min_votes = 6
    /\ mtf.tfs = Timeframes /\ mtf.m5rows >= MinRows
    /\ RLe(Ratio(6, 1), mtf.out.sell_votes)

\* Averages below the stricter threshold only: NO_ACTION
C23_WitnessBelow ==
    /\ mtf.op = "mtf" /\ mtf.out.signal = "NO_ACTION" /\ mtf.cfg.min_votes = 6
    /\ RLt(mtf.out.buy_votes, Ratio(6, 1)) /\ RLe(Ratio(4, 1), mtf.out.buy_votes)

\* The timeframes of the last call that hold a non-empty frame
PresentInCall(r) == IF r.m5rows = 0 THEN r.tfs \ {"M5"} ELSE r.tfs

\* C24: the confidence equals the sum of the fixed weights (M5 0.20, M15
\* 0.30, H1 0.50; in tenths) of the timeframes present in the input: missing
\* timeframes are left out, the remaining weights are not rescaled, and the
\* confidence is 1.0 only when all three timeframes are present.
C24_ConfidenceIsPresentWeight ==
    mtf.op = "mtf" =>
        /\ mtf.out.confidence =
             (IF "M5" \in PresentInCall(mtf) THEN WeightM5 ELSE 0)
             + (IF "M15" \in PresentInCall(mtf) THEN WeightM15 ELSE 0)
             + (IF "H1" \in PresentInCall(mtf) THEN WeightH1 ELSE 0)
        /\ mtf.out.confidence = 10 <=> PresentInCall(mtf) = Timeframes

\* M15 and H1 alone, with a directional vote: confidence 0.8
C24_Witness ==
    /\ mtf.op = "mtf" /\ PresentInCall(mtf) = {"M15", "H1"}
    /\ mtf.out.confidence = 8
    /\ CandidateOf(mtf) = "BUY"

(***************************************************************************)
(* Properties of the Kelly window                                          *)
(***************************************************************************)
\* C25: after any sequence of add_trade_result calls the window holds at
\* most lookback_trades (50) samples, the most recent ones in insertion
\* order: an append to a full window evicts the oldest sample and no other,
\* an append to a window with room evicts none.
C25_WindowFifo ==
    [][(kc'.adds = kc.adds + 1) =>
         /\ Len(kc'.trade_results) <= LookbackTrades
         /\ Len(kc'.trade_results) = Min2(Len(kc.trade_results) + 1, LookbackTrades)
         /\ SubSeq(kc'.trade_results, 1, Len(kc'.trade_results) - 1) =
              (IF Len(kc.trade_results) = LookbackTrades
               THEN Tail(kc.trade_results) ELSE kc.trade_results)
         /\ \E profit_loss \in {-3, 0, 2}, risk_amount \in {0, 2} :
              kc'.trade_results[Len(kc'.trade_results)] = TradeResult(profit_loss, risk_amount)]_vars

\* The window never holds more than 50 samples
C25_WindowBounded == Len(kc.trade_results) <= LookbackTrades

\* A window that started full with five leading wins, after two appended
\* non-wins: two of the leading wins are gone, the new samples are last
C25_Witness ==
    /\ kc.adds = 2
    /\ Len(kc.trade_results) = LookbackTrades
    /\ kc.trade_results[LookbackTrades].profit = -3
    /\ kc.trade_results[LookbackTrades - 1].profit = 0
    /\ kc.trade_results[3].win = 1
    /\ kc.trade_results[4].profit < 0
    /\ SumField(kc.trade_results, "win") = 3

\* Windows by the sign of their samples' profit_loss
NoSampleWon(w) == \A i \in 1..Len(w) : w[i].profit <= 0

EverySampleWon(w) == \A i \in 1..Len(w) : w[i].profit > 0

\* C26: calculate_optimal_fraction returns the default fraction 0.02 when the
\* window holds fewer than 20 samples; with 20 or more samples it returns the
\* minimum fraction 0.005 (never zero) when no sample is a win and the maximum
\* fraction 0.03 when every sample is a win; a sample with profit_loss <= 0
\* is not a win.
C26_KellyEdgeCases ==
    /\ \A i \in 1..Len(kc.trade_results) :
         kc.trade_results[i].win = (IF kc.trade_results[i].profit > 0 THEN 1 ELSE 0)
    /\ kc.fresh =>
         /\ Len(kc.trade_results) < MinKellyTrades => REq(frac, Ratio(20, 1000))
         /\ (Len(kc.trade_results) >= MinKellyTrades /\ NoSampleWon(kc.trade_results)) =>
              (REq(frac, Ratio(5, 1000)) /\ frac.n > 0)
         /\ (Len(kc.trade_results) >= MinKellyTrades /\ EverySampleWon(kc.trade_results)) =>
              REq(frac, Ratio(30, 1000))

\* Twenty break-even trades and one appended loss: no win, minimum fraction
C26_Witness ==
    /\ kc.fresh /\ kc.adds = 1
    /\ Len(kc.trade_results) = MinKellyTrades + 1
    /\ NoSampleWon(kc.trade_results)
    /\ kc.trade_results[1].profit = 0
    /\ kc.trade_results[MinKellyTrades + 1].profit = -3
    /\ REq(frac, MinRisk)

\* Nineteen wins: default fraction; the twentieth win gives the maximum
C26_WitnessAllWins ==
    /\ kc.fresh /\ kc.adds = 1
    /\ Len(kc.trade_results) = MinKellyTrades
    /\ EverySampleWon(kc.trade_results)
    /\ REq(frac, MaxRisk)

(***************************************************************************)
(* Properties of the backtest's statistics                                 *)
(***************************************************************************)
\* The balances the account has had after its first k closes, and before them
BalancesUpTo(e, k) == {e.initial_balance} \cup {e.trades[i].balance : i \in 1..k}

PeakUpTo(e, k) == CHOOSE m \in BalancesUpTo(e, k) : \A b \in BalancesUpTo(e, k) : b <= m

\* (peak_balance - balance) / peak_balance right after the k-th close
DrawdownAt(e, k) == Ratio(PeakUpTo(e, k) - e.trades[k].balance, PeakUpTo(e, k))

PeakAndDrawdownNow ==
    /\ eng.peak_balance = PeakUpTo(eng, Len(eng.trades))
    /\ eng.peak_balance >= eng.balance
    /\ \A k \in 1..Len(eng.trades) : RLe(DrawdownAt(eng, k), eng.max_drawdown)
    /\ IF eng.trades = <<>> THEN eng.max_drawdown.n = 0
       ELSE \E k \in 1..Len(eng.trades) : REq(DrawdownAt(eng, k), eng.max_drawdown)

\* C27: after every trade close, peak_balance is the maximum of
\* initial_balance and all post-close balances so far (it never decreases and
\* is >= balance), the drawdown of the close is (peak_balance - balance) /
\* peak_balance, and max_drawdown is the largest such drawdown so far (it
\* never decreases).
C27_PeakAndDrawdown ==
    /\ []PeakAndDrawdownNow
    /\ [][/\ eng'.peak_balance >= eng.peak_balance
          /\ RLe(eng.max_drawdown, eng'.max_drawdown)]_vars

\* A win that raised the peak, then a loss below it
C27_Witness ==
    /\ Len(eng.trades) = 2
    /\ eng.trades[1].pnl > 0 /\ eng.trades[2].pnl < 0
    /\ eng.peak_balance = eng.trades[1].balance
    /\ eng.peak_balance > eng.initial_balance
    /\ eng.balance < eng.peak_balance
    /\ eng.max_drawdown.n > 0

\* The recorded trades with a positive pnl, and the others
WonTrades(e) == {i \in 1..Len(e.trades) : e.trades[i].pnl > 0}

NotWonTrades(e) == {i \in 1..Len(e.trades) : e.trades[i].pnl <= 0}

\* C29: after any sequence of trade closes, winning_trades + losing_trades =
\* total_trades = the number of trade records, total_profit and total_loss
\* are non-negative, and a trade whose pnl is exactly 0 is counted as a
\* losing trade.
C29_TradeCounters ==
    /\ eng.winning_trades + eng.losing_trades = eng.total_trades
    /\ eng.total_trades = Len(eng.trades)
    /\ eng.total_profit >= 0
    /\ eng.total_loss >= 0
    /\ eng.winning_trades = Cardinality(WonTrades(eng))
    /\ eng.losing_trades = Cardinality(NotWonTrades(eng))

\* A win, then a trade closed at its entry price
C29_Witness ==
    /\ Len(eng.trades) = 2
    /\ eng.trades[1].pnl > 0
    /\ eng.trades[2].pnl = 0
    /\ eng.winning_trades = 1 /\ eng.losing_trades = 1
    /\ eng.total_profit > 0 /\ eng.total_loss = 0

(***************************************************************************)
(* Properties of the accepted signals and their history                    *)
(***************************************************************************)
\* What an accepted signal has passed
PassedAllGates(r) ==
    /\ r.tradeable
    /\ r.signal \in {"BUY", "SELL"}
    /\ r.passed_filters
    /\ RLe(Ratio(25, 1), r.strength)
    /\ RLe(Ratio(1, 2), r.agreement)
    /\ should_trade(r.regime)

\* C28: every result of generate_signal with tradeable = true has signal in
\* {BUY, SELL}, passed_filters = true, strength >= 25, agreement >= 0.5 and
\* a regime for which should_trade is true; only such results are appended to
\* signal_history, whose length per instrument never exceeds 100.
C28_AcceptedPassedGates ==
    /\ [](/\ IsAccepted(res.out) => PassedAllGates(res.out)
          /\ \A i \in DOMAIN gen.signal_history :
               /\ Len(gen.signal_history[i]) <= 100
               /\ \A k \in 1..Len(gen.signal_history[i]) :
                    PassedAllGates(gen.signal_history[i][k]))
    /\ [][\A i \in DOMAIN gen.signal_history :
            gen'.signal_history[i] # gen.signal_history[i] =>
              \E r \in {gen'.signal_history[i][Len(gen'.signal_history[i])]} :
                /\ PassedAllGates(r)
                /\ r.instrument = i
                /\ res'.n = res.n + 1 => res'.out = r
                /\ gen'.signal_history[i] =
                     (IF Len(gen.signal_history[i]) = 100
                      THEN Tail(gen.signal_history[i]) ELSE gen.signal_history[i]) \o <<r>>]_vars

\* An accepted signal appended to a history of 100: the oldest entry is gone
C28_Witness ==
    /\ res.n = 1
    /\ IsAccepted(res.out)
    /\ res.args.instrument = "GBP_USD"
    /\ res.time = 60
    /\ Len(gen.signal_history["GBP_USD"]) = 100
    /\ gen.signal_history["GBP_USD"][100] = res.out
    /\ gen.signal_history["GBP_USD"][99].timestamp = isoformat(-200)
    /\ gen.signal_history["GBP_USD"][1].timestamp = isoformat(PastTime(2))

(***************************************************************************)
(* Properties of concurrent generate_signal calls                          *)
(***************************************************************************)
\* Both calls are for the same instrument, were suspended at the fetch at
\* the same time, and have returned
BothReturnedConcurrent ==
    /\ res.pc = "done" /\ res2.pc = "done"
    /\ res.instrument = res2.instrument
    /\ res.concurrent \/ res2.concurrent

\* C30: two generate_signal calls for the same instrument that were both
\* suspended at the data-fetch await and then resumed in either order run
\* their cooldown check, analysis and history append one after the other,
\* so they are not both Accepted when their times are less than 4 hours
\* apart.
C30_NoDoubleAccept ==
    (BothReturnedConcurrent /\ IsAccepted(res.out) /\ IsAccepted(res2.out))
        => Abs(res.time - res2.time) >= 240

\* What the code gives: the call resumed second is not Accepted when its
\* time is later than the time of the call resumed first, by less than 4 hours.
C30_NoDoubleAcceptForward ==
    (BothReturnedConcurrent /\ IsAccepted(res.out) /\ IsAccepted(res2.out))
        => \/ Abs(res.time - res2.time) >= 240
           \/ (res.concurrent /\ res2.time <= res.time)
           \/ (res2.concurrent /\ res.time <= res2.time)

\* The history holds the accepted results of the two calls in the order of
\* their resumption, and nothing else
C30_Serialised ==
    (BothReturnedConcurrent /\ res.instrument \in SupportedInstruments) =>
        gen.signal_history[res.instrument] =
            (IF res.concurrent
             THEN (IF IsAccepted(res.out) THEN <<res.out>> ELSE <<>>)
                    \o (IF IsAccepted(res2.out) THEN <<res2.out>> ELSE <<>>)
             ELSE (IF IsAccepted(res2.out) THEN <<res2.out>> ELSE <<>>)
                    \o (IF IsAccepted(res.out) THEN <<res.out>> ELSE <<>>))

====
